---- MODULE Spec2Model ----
(***************************************************************************)
(* ytmdl: the download-and-assemble pipeline (src/src/download.rs).        *)
(*                                                                         *)
(* One call of download_album is modelled as a state machine: the          *)
(* orchestrator's sequential prefix (where_dirs, get_ids, get_image), the  *)
(* track jobs that rayon runs in parallel (one process per resolved        *)
(* identifier, every external call and every file-system call of a job a   *)
(* step of its own), and the join that builds the return value.  The       *)
(* caller (gui/app.rs) may call download_album again once it returned.     *)
(*                                                                         *)
(* The outside world (the playlist page, yt-dlp, ffmpeg, the tag library,  *)
(* the directories) answers nondeterministically; what it answered is      *)
(* recorded in the state, so that properties can speak about it.           *)
(***************************************************************************)
EXTENDS Integers, Sequences, FiniteSets, TLC

\* ------------------------------------------------------------------ bounds

\* most identifiers a playlist resolves to, and most tracks of the reviewed
\* metadata, in a modelled run
MaxTracks == 2

\* most worker threads of the pool
MaxThreads == 2

\* most items of a structured scrape, and most output lines of the fallback
\* tool, in the resolver's own specification
MaxItems == 2

\* calls of download_album in one behaviour of the specification of repeated
\* calls, and most identifiers and tracks in it
MaxRuns == 2

MaxRerunTracks == 1

\* ------------------------------------------------------------------ values

\* Option<T>: None is the empty sequence, Some(x) the one-element sequence
None == << >>

Some(x) == << x >>

IsSome(o) == Len(o) = 1

Unwrap(o) == o[1]

\* DownloadError (download.rs:22-38).  YtdlpError and FfmpegError carry the
\* identifier of the track; IoError, Id3Error, TmpDirError and
\* ScrapeYoutubeError carry nothing of the track; MultipleErrors carries the
\* list of the jobs' errors.
DownloadError(kind, id, errors) == [kind |-> kind, id |-> id, errors |-> errors]

YtdlpError(id) == DownloadError("YtdlpError", Some(id), << >>)

FfmpegError(id) == DownloadError("FfmpegError", Some(id), << >>)

IoError == DownloadError("IoError", None, << >>)

Id3Error == DownloadError("Id3Error", None, << >>)

TmpDirError == DownloadError("TmpDirError", None, << >>)

\* ScrapeYoutubeError (youtube.rs:7-13) wrapped by #[from] (download.rs:25)
ScrapeYoutubeError(sub) == DownloadError("ScrapeYoutubeError:" \o sub, None, << >>)

MultipleErrors(errors) == DownloadError("MultipleErrors", None, errors)

\* Result<(), DownloadError>
Ok == [ok |-> TRUE, err |-> DownloadError("-", None, << >>)]

Err(e) == [ok |-> FALSE, err |-> e]

\* Result<Vec<String>, DownloadError>; line tells which of the results given
\* to reduce_vec_of_results the error is of (0: of none of them)
OkIds(v) == [ok |-> TRUE, ids |-> v, err |-> DownloadError("-", None, << >>), line |-> 0]

ErrIdsAt(e, k) == [ok |-> FALSE, ids |-> << >>, err |-> e, line |-> k]

ErrIds(e) == ErrIdsAt(e, 0)

\* all sequences over S of length at most n
SeqsUpTo(S, n) == UNION {[1..k -> S] : k \in 0..n}

\* ------------------------------------------------------------------ resolver

\* identifiers of videos, as the resolver's own specification draws them
VideoIds == {"v1", "v2"}

\* the identifiers of the playlist the modelled runs download, in playlist order
PlaylistIds == << "v1", "v2", "v3", "v4" >>

\* scrape_playlist's answers: Err(..), or Ok(Playlist) whose tracks are
\* PlaylistItems, of which only the Option<String> id matters to get_ids
ScrapeErr == [ok |-> FALSE, tracks |-> << >>]

ScrapeOk(items) == [ok |-> TRUE, tracks |-> items]

PlaylistItemIds == {None} \cup {Some(v) : v \in VideoIds}

ScrapeResults == {ScrapeErr} \cup {ScrapeOk(t) : t \in SeqsUpTo(PlaylistItemIds, MaxItems)}

\* what `yt-dlp --skip-download --dump-json` can do: not start at all
\* (Command::output fails), or run and leave an exit status and non-empty
\* stdout lines, each one a JSON record with an id (Some) or a line serde
\* rejects (None)
DumpNotStarted == [started |-> FALSE, success |-> FALSE, lines |-> << >>]

DumpRan(success, lines) == [started |-> TRUE, success |-> success, lines |-> lines]

DumpLines == {None} \cup {Some(v) : v \in VideoIds}

DumpResults ==
    {DumpNotStarted}
        \cup {DumpRan(s, l) : s \in BOOLEAN, l \in SeqsUpTo(DumpLines, MaxItems)}

\* the fallback tool was not invoked
NotInvoked == [started |-> FALSE, success |-> TRUE, lines |-> << >>]

\* reduce_vec_of_results (utils.rs:8-19): Ok(all values) if every result is
\* Ok, else the first error.  A result is Some(value) or None (an error);
\* the error returned is told by the place `at` of its result in the list.
RECURSIVE reduce_loop(_, _)
reduce_loop(results, out) ==
    IF results = << >> THEN [ok |-> TRUE, vals |-> out, at |-> 0]
    ELSE IF IsSome(Head(results))
         THEN reduce_loop(Tail(results), Append(out, Unwrap(Head(results))))
         ELSE [ok |-> FALSE, vals |-> << >>, at |-> Len(out) + 1]

\* as reduce_vec_of_results, but returning the error of the last result that
\* has one
reduce_vec_of_results_last_error(results) ==
    LET bad == {k \in 1..Len(results) : ~IsSome(results[k])}
    IN  IF bad = {}
        THEN [ok |-> TRUE, vals |-> [k \in 1..Len(results) |-> Unwrap(results[k])], at |-> 0]
        ELSE [ok |-> FALSE, vals |-> << >>,
              at |-> CHOOSE k \in bad : \A j \in bad : j <= k]

reduce_vec_of_results(results) == reduce_loop(results, << >>)

\* a line of stdout with nothing in it, as the split at '\n' leaves one after
\* the last newline: neither a record nor a line that serde rejects
EmptyLine == << "", "" >>

not_empty(line) == line # EmptyLine

\* scrape_youtube (youtube.rs:51-64): the exit status of the tool is not
\* looked at; only a failure to start it, or a line that does not parse, is
\* an error.  The empty lines are filtered out before the parse.
scrape_youtube(dump) ==
    IF ~dump.started THEN ErrIds(ScrapeYoutubeError("IoError"))
    ELSE LET r == reduce_vec_of_results(SelectSeq(dump.lines, not_empty))
         IN  IF r.ok THEN OkIds(r.vals)
             ELSE ErrIdsAt(ScrapeYoutubeError("SerdeJsonError"), r.at)

\* as collect_ids, but putting each identifier in front of the earlier ones
RECURSIVE collect_ids_reversed(_, _)
collect_ids_reversed(tracks, out) ==
    IF tracks = << >> THEN [ok |-> TRUE, out |-> out]
    ELSE IF IsSome(Head(tracks))
         THEN collect_ids_reversed(Tail(tracks), << Unwrap(Head(tracks)) >> \o out)
         ELSE [ok |-> FALSE, out |-> out]

\* the loop of get_ids over the scraped tracks (download.rs:142-151): the
\* identifiers pushed so far and whether every item had one
RECURSIVE collect_ids(_, _)
collect_ids(tracks, out) ==
    IF tracks = << >> THEN [ok |-> TRUE, out |-> out]
    ELSE IF IsSome(Head(tracks))
         THEN collect_ids(Tail(tracks), Append(out, Unwrap(Head(tracks))))
         ELSE [ok |-> FALSE, out |-> out]

\* does get_ids fall through to the fallback tier? (download.rs:140-159)
structured_ok(scraped) == scraped.ok /\ collect_ids(scraped.tracks, << >>).ok

\* as get_ids, but keeping the identifiers pushed before the item that has
\* none and appending the fallback's to them
get_ids_mixed(scraped, dump) ==
    IF structured_ok(scraped)
    THEN OkIds(collect_ids(scraped.tracks, << >>).out)
    ELSE LET f == scrape_youtube(dump)
         IN  IF f.ok /\ scraped.ok
             THEN OkIds(collect_ids(scraped.tracks, << >>).out \o f.ids)
             ELSE f

\* get_ids (download.rs:136-161), on the answers of the two tiers
get_ids(scraped, dump) ==
    IF structured_ok(scraped)
    THEN OkIds(collect_ids(scraped.tracks, << >>).out)
    ELSE scrape_youtube(dump)

\* ------------------------------------------------------------------ names

\* strings whose characters matter are sequences of one-character strings
ILLEGAL_CHARS == {"<", ">", ":", "\"", "/", "\\", "|", "?", "*"}

\* contains_illegal_chars (utils.rs:23-28)
contains_illegal_chars(name) == \E k \in 1..Len(name) : name[k] \in ILLEGAL_CHARS

NotIllegal(ch) == ch \notin ILLEGAL_CHARS

\* as sanitize_file_name, but putting "_" in the place of an illegal character
sanitize_file_name_replacing(name) ==
    [k \in 1..Len(name) |-> IF name[k] \in ILLEGAL_CHARS THEN "_" ELSE name[k]]

\* sanitize_file_name (utils.rs:31-43)
sanitize_file_name(name) ==
    IF contains_illegal_chars(name) THEN SelectSeq(name, NotIllegal) ELSE name

\* state.album_data of the modelled runs
album_artist == << "Y" >>

album_name == << "X" >>

\* the titles the reviewed track list is drawn from
Titles == {<< "A" >>, << "B" >>}

\* format!("{} - {} - {}.mp3", artist, name, title) (download.rs:314-317)
format_file_name(artist, name, title) ==
    artist \o << " ", "-", " " >> \o name \o << " ", "-", " " >> \o title
        \o << ".", "m", "p", "3" >>

\* the file of the output directory that move_to_out_dir writes for a title
\* (download.rs:311-321)
out_file_path(title) == sanitize_file_name(format_file_name(album_artist, album_name, title))

\* ------------------------------------------------------------------ files

\* a directory is a function from the paths that exist in it to their content
EmptyDir == [p \in {} |-> None]

exists(dir, path) == path \in DOMAIN dir

write_file(dir, path, content) ==
    [p \in DOMAIN dir \cup {path} |-> IF p = path THEN content ELSE dir[p]]

remove_file(dir, path) == [p \in DOMAIN dir \ {path} |-> dir[p]]

\* the content of an audio file: the run and the identifier it was fetched
\* for, and the ID3 tag written into it (None before the tag step)
Audio(r, id, tag) == [run |-> r, id |-> id, tag |-> tag]

\* ------------------------------------------------------------------ environment

\* values of the YTMDL_OVERWRITE variable: unset (None) or set to a string
OverwriteValues == {None, Some("true"), Some("TRUE"), Some("1"), Some("")}

\* as overwrite_enabled, but off when the variable is unset
overwrite_enabled_default_off(v) == IF IsSome(v) THEN Unwrap(v) = "true" ELSE FALSE

\* env::var("YTMDL_OVERWRITE").map_or(true, |v| v.as_str() == "true")
\* (download.rs:331)
overwrite_enabled(v) == IF IsSome(v) THEN Unwrap(v) = "true" ELSE TRUE

\* extensions of the file name yt-dlp announces for a track
Exts == {"mp3", "webm"}

\* as is_mp3, but comparing the extension as it is spelled
is_mp3_case_sensitive(ext) == ext = "mp3"

\* ext.eq_ignore_ascii_case("mp3") (download.rs:251-253)
is_mp3(ext) == ext \in {"mp3", "MP3", "Mp3", "mP3"}

\* a path of the scratch directory is the sequence of the parts of its file
\* name that the dots separate, the first of them being the index of the
\* track: << 0, "webm" >> is "0.webm". Path::extension (download.rs:251-252):
\* what follows the last dot, if there is a dot
extension(path) == IF Len(path) < 2 THEN None ELSE Some(path[Len(path)])

\* PathBuf::set_extension (download.rs:257): the extension is replaced, or
\* added if there is none
set_extension(path, ext) ==
    IF Len(path) < 2 THEN path \o << ext >> ELSE SubSeq(path, 1, Len(path) - 1) \o << ext >>

\* what running ffmpeg comes to (download.rs:263-266): it cannot be started,
\* it exits with a failure, or it exits with success
FfmpegRuns == {"not_started", "failed", "succeeded"}

\* convert_to_mp3 (download.rs:249-273) on a path, for an identifier, ffmpeg
\* doing f if it is run: whether ffmpeg is run, and the path or the error
\* returned
convert_to_mp3(old_path, id, f) ==
    IF IsSome(extension(old_path)) /\ is_mp3(Unwrap(extension(old_path)))
    THEN [invoked |-> FALSE, ok |-> TRUE, path |-> old_path, err |-> None]
    ELSE LET path == set_extension(old_path, "mp3")
         IN  CASE f = "not_started" ->
                    [invoked |-> TRUE, ok |-> FALSE, path |-> << >>, err |-> Some(IoError)]
               [] f = "failed" ->
                    [invoked |-> TRUE, ok |-> FALSE, path |-> << >>, err |-> Some(FfmpegError(id))]
               [] f = "succeeded" ->
                    [invoked |-> TRUE, ok |-> TRUE, path |-> path, err |-> None]

\* what reqwest::blocking::get answers for the album art: a network error, or
\* a response (of any status) with or without a readable Content-Type header
\* and with or without a readable body
GetErr == [ok |-> FALSE, success |-> FALSE, content_type |-> FALSE, body |-> FALSE]

GetOk(success, ct, body) == [ok |-> TRUE, success |-> success, content_type |-> ct, body |-> body]

\* get_image (download.rs:163-181): (img, content_type), each present or not
get_image(resp) ==
    IF resp.ok THEN [img |-> resp.body, content_type |-> resp.content_type]
    ELSE [img |-> FALSE, content_type |-> FALSE]

\* ------------------------------------------------------------------ state

VARIABLES
    run,          \* number of the current call of download_album
    pc,           \* where the call is: "where_dirs", "get_ids", "get_image",
                  \* "jobs" (the parallel iterator runs), "returned", "panicked"
    result,       \* the value the call returned: None, or Some(Ok / Err(e))
    track_data,   \* state.track_data: the titles of the reviewed track list
    overwrite,    \* the YTMDL_OVERWRITE variable of the process, once a job has
                  \* read it: None before, then Some(value), the same for good
    tmp_dir,      \* the scratch directory: "absent", "exists" or "deleted"
    tmp_files,    \* the files of the scratch directory, by <<index, extension>>
    out_files,    \* the files of the output directory, by file name
    scraped,      \* what scrape_playlist answered in this call (None: not asked)
    dump,         \* what the fallback tool did in this call (NotInvoked: not run)
    ids,          \* the identifiers get_ids returned
    resp,         \* what the album-art request answered (None: not requested)
    image,        \* (img, content_type) of get_image, each present or not
    jobs,         \* the track jobs, by index 0..num_tracks-1
    call,         \* a call of a function of utils.rs or parsing.rs on its own:
                  \* its arguments, the iterator it advances, what it returned
    threads,      \* the number of worker threads of POOL (threading.rs:4)
    app,          \* the App of the GUI (gui/app.rs:9-14): its screen and the
                  \* fields of the screen's state other than track_data
    completed     \* where the order of completion is followed: Some(the indices
                  \* of the jobs that returned, in the order they returned);
                  \* None where it is not

vars ==
    << run, pc, result, track_data, overwrite, tmp_dir, tmp_files, out_files,
       scraped, dump, ids, resp, image, jobs, call, threads, app, completed >>

\* a track job: where it is in handle_track, the extension of the scratch file
\* it works on, what move_to_out_dir found at the destination when it looked
\* (None before; then Some(None): no file, or Some(Some(content))), whether
\* it warned then that its scratch file does not exist, and its return value
\* once it returned
Job(at, ext, res) == [pc |-> at, ext |-> ext, found |-> None, missing |-> FALSE, res |-> res]

NoJobs == [i \in {} |-> None]

NoImage == [img |-> FALSE, content_type |-> FALSE]

\* no job of the call has returned yet
none_completed(followed) == IF IsSome(followed) THEN Some(<< >>) ELSE None

\* the year of publication the Discogs page gives
\* (gui/view_modifying_data.rs:78)
date_published == 2000

\* App::LinkInput(StateLinkInput { youtube_link, discogs_link })
\* (gui/app.rs:11, gui/view_link_input.rs:8-12)
LinkInput(youtube_link, discogs_link) ==
    [screen |-> "LinkInput", youtube_link |-> youtube_link, discogs_link |-> discogs_link,
     youtube_url |-> "", year |-> 0]

\* App::ModifyingData(StateModifyingData { youtube_url, album_data, .. })
\* (gui/app.rs:13, gui/view_modifying_data.rs:13-27, 84-103), as
\* StateModifyingData::new makes it; the track list of the state is the
\* variable track_data
ModifyingData(youtube_url) ==
    [screen |-> "ModifyingData", youtube_link |-> "", discogs_link |-> "",
     youtube_url |-> youtube_url, year |-> date_published]

\* StateLinkInput::default()
StateLinkInput_default == LinkInput("", "")

num_tracks == Len(ids)

Indices == DOMAIN jobs

\* a call of a function on its own: the function, its string or path
\* argument (as given), its list of sequences, the characters left in the
\* iterator, the number it returned, the string or path it returned, and
\* whether it has returned; for a function that takes an identifier and runs
\* an external tool: the identifier, what the tool did ("none": it was not
\* run), and the error returned
Call(fn, arg, sequences) ==
    [fn |-> fn, arg |-> arg, sequences |-> sequences, chars |-> arg, found |-> 0,
     out |-> << >>, done |-> FALSE, id |-> "", tool |-> "none", err |-> None]

\* no string function is examined on its own
NoCall == Call("none", << >>, << >>)

\* the program as the caller of download_album finds it (gui/app.rs:84-89):
\* the reviewed track list, of at most n tracks, is fixed, the output
\* directory holds no file yet; the call examined on its own is one of
\* calls, and the pool has one of the given sizes
InitPooled(n, calls, sizes) ==
    /\ run = 1
    /\ pc = "where_dirs"
    /\ result = None
    /\ track_data \in SeqsUpTo(Titles, n)
    /\ overwrite = None
    /\ tmp_dir = "absent"
    /\ tmp_files = EmptyDir
    /\ out_files = EmptyDir
    /\ scraped = None
    /\ dump = NotInvoked
    /\ ids = << >>
    /\ resp = None
    /\ image = NoImage
    /\ jobs = NoJobs
    /\ call \in calls
    /\ threads \in sizes
    /\ app = ModifyingData("")
    /\ completed = None

\* the same with a pool of MaxThreads workers
InitWith(n, calls) == InitPooled(n, calls, {MaxThreads})

InitTracks(n) == InitWith(n, {NoCall})

Init == InitTracks(MaxTracks)

\* ------------------------------------------------------------------ orchestrator

\* download_album returns early with an error (the ? of download.rs:53-57);
\* the TempDir, if it was created, is dropped and with it the directory
abort(e, scratch) ==
    /\ pc' = "returned"
    /\ result' = Some(Err(e))
    /\ tmp_dir' = scratch
    /\ tmp_files' = EmptyDir

\* where_dirs and the path conversion (download.rs:53-56, 183-197):
\* TempDir::new or create_dir_all can fail, and the path of the scratch
\* directory can fail to be UTF-8
where_dirs_step ==
    /\ pc = "where_dirs"
    /\ \/ abort(IoError, "absent")
       \/ abort(IoError, "deleted")
       \/ abort(TmpDirError, "deleted")
       \/ /\ pc' = "get_ids"
          /\ tmp_dir' = "exists"
          /\ UNCHANGED << result, tmp_files >>
    /\ UNCHANGED << call, threads, app, completed, run, track_data, overwrite, out_files, scraped, dump, ids, resp,
                    image, jobs >>

\* as get_ids_step, but going on with no identifiers when get_ids fails
get_ids_step_default(S, D) ==
    /\ pc = "get_ids"
    /\ \E s \in S, d \in D :
          /\ scraped' = Some(s)
          /\ dump' = IF structured_ok(s) THEN NotInvoked ELSE d
          /\ ids' = get_ids(s, d).ids
    /\ pc' = "get_image"
    /\ UNCHANGED << call, threads, app, completed, run, result, track_data, overwrite, tmp_dir, tmp_files, out_files,
                    resp, image, jobs >>

\* get_ids (download.rs:57, 136-161) on answers of the two tiers drawn from
\* S and D; the fallback tool runs only if the structured tier is abandoned
get_ids_step(S, D) ==
    /\ pc = "get_ids"
    /\ \E s \in S, d \in D :
          LET r == get_ids(s, d)
          IN  /\ scraped' = Some(s)
              /\ dump' = IF structured_ok(s) THEN NotInvoked ELSE d
              /\ IF r.ok
                 THEN /\ ids' = r.ids
                      /\ pc' = "get_image"
                      /\ UNCHANGED << result, tmp_dir, tmp_files >>
                 ELSE /\ ids' = << >>
                      /\ abort(r.err, "deleted")
    /\ UNCHANGED << call, threads, app, completed, run, track_data, overwrite, out_files, resp, image, jobs >>

\* the answers of the tiers in the modelled runs: the playlist has n entries
RunPlaylist(n) == [k \in 1..n |-> Some(PlaylistIds[k])]

\* for playlists of at most m entries
RunScrapes(m) == {ScrapeErr} \cup {ScrapeOk(RunPlaylist(n)) : n \in 0..m}

RunDumps(m) ==
    {DumpNotStarted, DumpRan(FALSE, << >>)}
        \cup {DumpRan(TRUE, RunPlaylist(n)) : n \in 1..m}

get_ids_run == get_ids_step(RunScrapes(MaxTracks), RunDumps(MaxTracks))

get_ids_rerun == get_ids_step(RunScrapes(MaxRerunTracks), RunDumps(MaxRerunTracks))

get_ids_any == get_ids_step(ScrapeResults, DumpResults)

\* get_image and the dispatch of the jobs (download.rs:59-68): one job per
\* identifier, with its index
get_image_step(R) ==
    /\ pc = "get_image"
    /\ \E r \in R :
          /\ resp' = Some(r)
          /\ image' = get_image(r)
    /\ jobs' = [i \in 0..(num_tracks - 1) |-> Job("generate_path_name", None, None)]
    /\ pc' = "jobs"
    /\ UNCHANGED << call, threads, app, completed, run, result, track_data, overwrite, tmp_dir, tmp_files, out_files,
                    scraped, dump, ids >>

RunResponses == {GetErr, GetOk(TRUE, TRUE, TRUE)}

get_image_run == get_image_step(RunResponses)

\* every answer the album-art request can get: a network error, or a response
\* of a success or non-success status, with or without a readable
\* Content-Type header, with or without a readable body
GetResponses == {GetErr} \cup {GetOk(s, ct, b) : s \in BOOLEAN, ct \in BOOLEAN, b \in BOOLEAN}

get_image_any == get_image_step(GetResponses)

\* ------------------------------------------------------------------ track job

\* as at_step, but letting a job that has returned take steps
at_step_after_return(i, at) ==
    /\ pc = "jobs"
    /\ i \in Indices
    /\ jobs[i].pc = at

\* job i of the parallel iterator is at step `at` of handle_track
at_step(i, at) ==
    /\ pc = "jobs"
    /\ i \in Indices
    /\ jobs[i].res = None
    /\ jobs[i].pc = at

\* handle_track returns r from the step it is at (a ? or the final value)
job_returns(i, r) ==
    /\ jobs' = [jobs EXCEPT ![i].res = Some(r)]
    /\ completed' = IF IsSome(completed) THEN Some(Append(Unwrap(completed), i)) ELSE None

job_goes(i, at) ==
    /\ jobs' = [jobs EXCEPT ![i].pc = at]
    /\ UNCHANGED completed

\* the identifier the job was dispatched with (download.rs:65-69)
id_of(i) == ids[i + 1]

\* the scratch file the job works on: "{i}.{ext}" in the scratch directory
tmp_path(i) == << i, Unwrap(jobs[i].ext) >>

orchestrator_unchanged ==
    UNCHANGED << call, threads, app, run, pc, result, track_data, overwrite, tmp_dir, scraped, dump, ids,
                 resp, image >>

\* generate_path_name (download.rs:122, 199-226): yt-dlp --get-filename
\* cannot be started, exits with a failure, or prints the file name
generate_path_name(i) ==
    /\ at_step(i, "generate_path_name")
    /\ \/ job_returns(i, Err(IoError))
       \/ job_returns(i, Err(YtdlpError(id_of(i))))
       \/ \E ext \in Exts :
             /\ jobs' = [jobs EXCEPT ![i] = Job("dl_from_yt", Some(ext), None)]
             /\ UNCHANGED completed
    /\ UNCHANGED << tmp_files, out_files >>
    /\ orchestrator_unchanged

\* dl_from_yt (download.rs:123, 228-247): yt-dlp cannot be started, exits
\* with a failure, or leaves the announced file in the scratch directory
dl_from_yt(i) ==
    /\ at_step(i, "dl_from_yt")
    /\ \/ /\ job_returns(i, Err(IoError))
          /\ UNCHANGED tmp_files
       \/ /\ job_returns(i, Err(YtdlpError(id_of(i))))
          /\ UNCHANGED tmp_files
       \/ /\ tmp_files' = write_file(tmp_files, tmp_path(i), Audio(run, id_of(i), None))
          /\ job_goes(i, "convert_to_mp3")
    /\ UNCHANGED out_files
    /\ orchestrator_unchanged

\* convert_to_mp3 (download.rs:126, 249-273): nothing to do for an mp3;
\* otherwise ffmpeg cannot be started, exits with a failure, or writes the
\* file with the extension replaced by mp3 (the fetched file stays)
convert_to_mp3_step(i) ==
    /\ at_step(i, "convert_to_mp3")
    /\ \E f \in FfmpegRuns :
          LET r == convert_to_mp3(tmp_path(i), id_of(i), f)
          IN  IF ~r.ok
              THEN /\ job_returns(i, Err(Unwrap(r.err)))
                   /\ UNCHANGED tmp_files
              ELSE IF ~r.invoked
                   THEN /\ job_goes(i, "generate_tags")
                        /\ UNCHANGED tmp_files
                   ELSE /\ exists(tmp_files, tmp_path(i))
                        /\ tmp_files' = write_file(tmp_files, r.path, tmp_files[tmp_path(i)])
                        /\ jobs' = [jobs EXCEPT ![i] = Job("generate_tags", extension(r.path), None)]
                        /\ UNCHANGED completed
    /\ UNCHANGED out_files
    /\ orchestrator_unchanged

\* as generate_tags, but numbering the track by the order of completion: one
\* more than the number of jobs that have returned
generate_tags_by_completion(i) ==
    [album |-> album_name,
     artist |-> album_artist,
     album_artist |-> album_artist,
     track |-> Cardinality({j \in DOMAIN jobs : jobs[j].res # None}) + 1,
     total_tracks |-> Len(track_data),
     title |-> track_data[i + 1],
     year |-> app.year,
     picture |-> image.img /\ image.content_type]

\* generate_tags (download.rs:276-303) for index i: the album, the artist,
\* the track number, the number of tracks, the title, the year, and whether
\* a picture frame is added
generate_tags(i) ==
    [album |-> album_name,
     artist |-> album_artist,
     album_artist |-> album_artist,
     track |-> i + 1,
     total_tracks |-> Len(track_data),
     title |-> track_data[i + 1],
     year |-> app.year,
     picture |-> image.img /\ image.content_type]

\* the tag step (download.rs:129-130): state.track_data[i] panics when i is
\* out of range; write_to_path fails or writes the tag into the scratch file
write_tags(i) ==
    /\ at_step(i, "generate_tags")
    /\ IF i >= Len(track_data)
       THEN /\ job_goes(i, "panicked")
            /\ UNCHANGED tmp_files
       ELSE \/ /\ job_returns(i, Err(Id3Error))
               /\ UNCHANGED tmp_files
            \/ /\ exists(tmp_files, tmp_path(i))
               /\ tmp_files' = [tmp_files EXCEPT ![tmp_path(i)].tag = Some(generate_tags(i))]
               /\ job_goes(i, "move_to_out_dir")
    /\ UNCHANGED out_files
    /\ orchestrator_unchanged

\* ------------------------------------------------------------------ relocate

\* env::var("YTMDL_OVERWRITE") (download.rs:331): the value the process was
\* started with, whichever it is at the first read and the same afterwards
env_var(known) == IF IsSome(known) THEN {Unwrap(known)} ELSE OverwriteValues

\* the destination of job i in the output directory (download.rs:311-321)
dest_path(i) == out_file_path(track_data[i + 1])

\* move_to_out_dir up to the decision (download.rs:311-342): the warning if
\* the scratch file does not exist; does the destination exist, and if so,
\* does YTMDL_OVERWRITE allow to replace it?
mv_check(i) ==
    /\ at_step(i, "move_to_out_dir")
    /\ IF exists(out_files, dest_path(i))
       THEN \E v \in env_var(overwrite) :
               /\ overwrite' = Some(v)
               /\ jobs' = [jobs EXCEPT
                            ![i].missing = ~exists(tmp_files, tmp_path(i)),
                            ![i].found = Some(Some(out_files[dest_path(i)])),
                            ![i].pc = IF overwrite_enabled(v) THEN "remove_existing" ELSE "skip"]
       ELSE /\ jobs' = [jobs EXCEPT ![i].missing = ~exists(tmp_files, tmp_path(i)),
                                    ![i].found = Some(None), ![i].pc = "copy"]
            /\ UNCHANGED overwrite
    /\ UNCHANGED << tmp_files, out_files >>
    /\ UNCHANGED << call, threads, app, completed, run, pc, result, track_data, tmp_dir, scraped, dump, ids, resp, image >>

\* as mv_remove_existing, but removing the scratch file instead of the
\* existing destination
mv_remove_existing_wrong_file(i) ==
    /\ at_step(i, "remove_existing")
    /\ IF exists(tmp_files, tmp_path(i))
       THEN /\ tmp_files' = remove_file(tmp_files, tmp_path(i))
            /\ job_goes(i, "copy")
       ELSE /\ job_returns(i, Err(IoError))
            /\ UNCHANGED tmp_files
    /\ UNCHANGED out_files
    /\ orchestrator_unchanged

\* fs::remove_file(out_file_path)? (download.rs:333)
mv_remove_existing(i) ==
    /\ at_step(i, "remove_existing")
    /\ IF exists(out_files, dest_path(i))
       THEN /\ out_files' = remove_file(out_files, dest_path(i))
            /\ job_goes(i, "copy")
       ELSE /\ job_returns(i, Err(IoError))
            /\ UNCHANGED out_files
    /\ UNCHANGED tmp_files
    /\ orchestrator_unchanged

\* as mv_copy, but taking a missing scratch file for nothing to do
mv_copy_missing_is_ok(i) ==
    /\ at_step(i, "copy")
    /\ IF exists(tmp_files, tmp_path(i))
       THEN /\ out_files' = write_file(out_files, dest_path(i), tmp_files[tmp_path(i)])
            /\ job_goes(i, "remove_tmp")
       ELSE /\ job_returns(i, Ok)
            /\ UNCHANGED out_files
    /\ UNCHANGED tmp_files
    /\ orchestrator_unchanged

\* fs::copy(old_path, out_file_path)? (download.rs:343)
mv_copy(i) ==
    /\ at_step(i, "copy")
    /\ IF exists(tmp_files, tmp_path(i))
       THEN /\ out_files' = write_file(out_files, dest_path(i), tmp_files[tmp_path(i)])
            /\ job_goes(i, "remove_tmp")
       ELSE /\ job_returns(i, Err(IoError))
            /\ UNCHANGED out_files
    /\ UNCHANGED tmp_files
    /\ orchestrator_unchanged

\* fs::remove_file(old_path)?; Ok(()) (download.rs:345-347)
mv_remove_tmp(i) ==
    /\ at_step(i, "remove_tmp")
    /\ IF exists(tmp_files, tmp_path(i))
       THEN /\ tmp_files' = remove_file(tmp_files, tmp_path(i))
            /\ job_returns(i, Ok)
       ELSE /\ job_returns(i, Err(IoError))
            /\ UNCHANGED tmp_files
    /\ UNCHANGED out_files
    /\ orchestrator_unchanged

\* as mv_skip, but reporting the kept destination as an error
mv_skip_as_error(i) ==
    /\ at_step(i, "skip")
    /\ IF exists(tmp_files, tmp_path(i))
       THEN tmp_files' = remove_file(tmp_files, tmp_path(i))
       ELSE UNCHANGED tmp_files
    /\ job_returns(i, Err(IoError))
    /\ UNCHANGED out_files
    /\ orchestrator_unchanged

\* the destination is kept: fs::remove_file(old_path)?; return Ok(())
\* (download.rs:339-340)
mv_skip(i) ==
    /\ at_step(i, "skip")
    /\ IF exists(tmp_files, tmp_path(i))
       THEN /\ tmp_files' = remove_file(tmp_files, tmp_path(i))
            /\ job_returns(i, Ok)
       ELSE /\ job_returns(i, Err(IoError))
            /\ UNCHANGED tmp_files
    /\ UNCHANGED out_files
    /\ orchestrator_unchanged

\* ------------------------------------------------------------------ scratch files

\* something outside the program (a cleaner of the temporary directory, the
\* user) deletes the scratch file job i works on, while the job runs
scratch_file_removed(i) ==
    /\ pc = "jobs"
    /\ i \in Indices
    /\ jobs[i].res = None
    /\ IsSome(jobs[i].ext)
    /\ exists(tmp_files, tmp_path(i))
    /\ tmp_files' = remove_file(tmp_files, tmp_path(i))
    /\ UNCHANGED << out_files, jobs, completed >>
    /\ orchestrator_unchanged

\* ------------------------------------------------------------------ pool

\* the external tool job i is waiting for never returns: nothing in
\* Command::output() (download.rs:218, 240, 265) gives up
hung(i) == jobs[i].pc = "hung"

\* a worker thread of the pool is occupied by job j: the job was started and
\* has neither returned nor panicked
running(j) ==
    /\ jobs[j].res = None
    /\ jobs[j].pc \notin {"generate_path_name", "panicked"}

\* the pool has a worker thread that runs no job
worker_free == Cardinality({j \in Indices : running(j)}) < threads

\* a worker thread takes job i and runs its first step
\* (download.rs:64-69, 122)
start(i) == worker_free /\ generate_path_name(i)

\* yt-dlp or ffmpeg, run for job i, never returns; the case of one such job
\* is followed
hang(i) ==
    /\ \A j \in Indices : ~hung(j)
    /\ \/ at_step(i, "generate_path_name") /\ worker_free
       \/ at_step(i, "dl_from_yt")
       \/ at_step(i, "convert_to_mp3") /\ convert_to_mp3(tmp_path(i), id_of(i), "failed").invoked
    /\ job_goes(i, "hung")
    /\ UNCHANGED << tmp_files, out_files >>
    /\ orchestrator_unchanged

\* ------------------------------------------------------------------ join

finished(j) == j.res # None \/ j.pc = "panicked"

failed(j) == j.res # None /\ ~Unwrap(j.res).ok

\* the errors of the jobs of the list `order` that returned one, in the
\* order of the list
RECURSIVE errors_in_order(_, _)
errors_in_order(js, order) ==
    IF order = << >> THEN << >>
    ELSE IF failed(js[Head(order)])
         THEN << Unwrap(js[Head(order)].res).err >> \o errors_in_order(js, Tail(order))
         ELSE errors_in_order(js, Tail(order))

\* as collect_errors, but with the errors in the order in which the jobs
\* returned them (where that order is followed)
collect_errors_by_completion(js, i) ==
    IF IsSome(completed) THEN errors_in_order(js, Unwrap(completed)) ELSE << >>

\* filter_map(.. .err()).collect() (download.rs:69-86): the errors of the
\* jobs that returned one, in the order of the indices, from index i on
RECURSIVE collect_errors(_, _)
collect_errors(js, i) ==
    IF i \notin DOMAIN js THEN << >>
    ELSE IF failed(js[i])
         THEN << Unwrap(js[i].res).err >> \o collect_errors(js, i + 1)
         ELSE collect_errors(js, i + 1)

\* as run_result, but reporting only the first of the errors
run_result_first(errors) ==
    IF errors = << >> THEN Ok ELSE Err(MultipleErrors(<< Head(errors) >>))

\* as run_result, but taking a call without any job for a failure
run_result_needs_a_job(errors) ==
    IF errors = << >> /\ ids # << >> THEN Ok ELSE Err(MultipleErrors(errors))

\* the value of download_album once the jobs are joined (download.rs:91-95)
run_result(errors) == IF errors = << >> THEN Ok ELSE Err(MultipleErrors(errors))

\* as join, but returning as soon as a job has returned an error, without
\* waiting for the other jobs
join_at_first_error ==
    /\ pc = "jobs"
    /\ \E i \in Indices : failed(jobs[i])
    /\ pc' = "returned"
    /\ result' = Some(run_result(collect_errors(jobs, 0)))
    /\ tmp_dir' = "deleted"
    /\ tmp_files' = EmptyDir
    /\ UNCHANGED << call, threads, app, completed, run, track_data, overwrite, out_files, scraped, dump, ids, resp,
                    image, jobs >>

\* as join, but returning without dropping the TempDir: the scratch directory
\* and its files stay
join_keeping_scratch ==
    /\ pc = "jobs"
    /\ \A i \in Indices : finished(jobs[i])
    /\ IF \E i \in Indices : jobs[i].pc = "panicked"
       THEN /\ pc' = "panicked"
            /\ UNCHANGED result
       ELSE /\ pc' = "returned"
            /\ result' = Some(run_result(collect_errors(jobs, 0)))
    /\ UNCHANGED << call, threads, app, completed, run, track_data, overwrite, tmp_dir, tmp_files, out_files, scraped,
                    dump, ids, resp, image, jobs >>

\* every job ended: download_album returns and drops the TempDir
\* (download.rs:87-96); a job that panicked makes the call panic
join ==
    /\ pc = "jobs"
    /\ \A i \in Indices : finished(jobs[i])
    /\ IF \E i \in Indices : jobs[i].pc = "panicked"
       THEN /\ pc' = "panicked"
            /\ UNCHANGED result
       ELSE /\ pc' = "returned"
            /\ result' = Some(run_result(collect_errors(jobs, 0)))
    /\ tmp_dir' = "deleted"
    /\ tmp_files' = EmptyDir
    /\ UNCHANGED << call, threads, app, completed, run, track_data, overwrite, out_files, scraped, dump, ids, resp,
                    image, jobs >>

\* the caller calls download_album again (gui/app.rs:84-89)
call_again ==
    /\ pc = "returned"
    /\ run < MaxRuns
    /\ run' = run + 1
    /\ pc' = "where_dirs"
    /\ result' = None
    /\ tmp_dir' = "absent"
    /\ scraped' = None
    /\ dump' = NotInvoked
    /\ ids' = << >>
    /\ resp' = None
    /\ image' = NoImage
    /\ jobs' = NoJobs
    /\ completed' = none_completed(completed)
    /\ UNCHANGED << call, threads, app, track_data, overwrite, tmp_files, out_files >>

\* ------------------------------------------------------------------ GUI

\* the texts of the link inputs
LinkTexts == {"", "l"}

\* what scrape_discogs answers (gui/app.rs:56): an error, or an album with
\* its tracks
DiscogsErr == [ok |-> FALSE, tracks |-> << >>]

DiscogsOk(tracks) == [ok |-> TRUE, tracks |-> tracks]

DiscogsResults == {DiscogsErr} \cup {DiscogsOk(t) : t \in SeqsUpTo(Titles, MaxRerunTracks)}

\* App::update handles one message at a time; while download_album runs in
\* it, no other message is handled
idle == pc = "idle"

\* the session is followed up to the end of its first call of
\* download_album: update is ready for a message and has not called it yet
ready == idle /\ run = 0

\* longest text typed into the Year input
MaxYearLen == 1

\* the characters typed into the Year input
YearChars == {"7", "-", "x"}

YearTexts == SeqsUpTo(YearChars, MaxYearLen)

\* the range of album_data.year: i32 (gui/view_modifying_data.rs:25)
i32_MAX == 2147483647

i32_MIN == 0 - i32_MAX - 1

DigitChars == << "0", "1", "2", "3", "4", "5", "6", "7", "8", "9" >>

is_digit(ch) == \E k \in 1..10 : DigitChars[k] = ch

to_digit(ch) == (CHOOSE k \in 1..10 : DigitChars[k] = ch) - 1

\* acc * 10 + sign * d is in the range of i32 (checked_mul, then checked_add
\* or checked_sub), told without leaving the range
in_range(acc, d, sign) ==
    IF sign = 1 THEN acc <= (i32_MAX - d) \div 10
    ELSE (0 - acc) <= (IF d = 0 THEN i32_MAX ELSE i32_MAX - (d - 1)) \div 10

\* the digits of i32::from_str, after the sign: every character must be a
\* digit and the number must stay in the range of i32
RECURSIVE parse_digits(_, _, _)
parse_digits(digits, acc, sign) ==
    IF digits = << >> THEN Some(acc)
    ELSE IF ~is_digit(Head(digits)) THEN None
         ELSE LET d == to_digit(Head(digits))
              IN  IF ~in_range(acc, d, sign) THEN None
                  ELSE parse_digits(Tail(digits), acc * 10 + sign * d, sign)

\* as parse, but giving 0 for a text that is no number
parse_or_default(str) ==
    IF str = << >> \/ (Len(str) = 1 /\ Head(str) \in {"+", "-"}) THEN Some(0)
    ELSE LET r == IF Head(str) = "-" THEN parse_digits(Tail(str), 0, 0 - 1)
                  ELSE IF Head(str) = "+" THEN parse_digits(Tail(str), 0, 1)
                  ELSE parse_digits(str, 0, 1)
         IN  IF IsSome(r) THEN r ELSE Some(0)

\* s.parse() for an i32 (gui/app.rs:70): None for the empty text, for a sign
\* alone, for a character that is no digit and for a number out of range;
\* otherwise Some(number)
parse(str) ==
    IF str = << >> \/ (Len(str) = 1 /\ Head(str) \in {"+", "-"}) THEN None
    ELSE IF Head(str) = "-" THEN parse_digits(Tail(str), 0, 0 - 1)
    ELSE IF Head(str) = "+" THEN parse_digits(Tail(str), 0, 1)
    ELSE parse_digits(str, 0, 1)

\* the message App::update is handling or has handled last
\* (gui/message.rs:1-22): its kind, its texts (links, or the characters typed
\* into Year), the title and the index of a Tracks change, what
\* scrape_discogs did for it, and whether update has returned
Message(kind, texts, titles, index, scrape, done) ==
    [Call("update", texts, titles) EXCEPT
        !.id = kind, !.found = index, !.tool = scrape, !.done = done]

download_unchanged ==
    UNCHANGED << threads, completed, run, pc, result, overwrite, tmp_dir, tmp_files, out_files,
                 scraped, dump, ids, resp, image, jobs >>

\* Message::YoutubeLinkInputChanged (gui/app.rs:38-46)
YoutubeLinkInputChanged ==
    /\ ready
    /\ \E new_text \in LinkTexts :
          /\ call' = Message("YoutubeLinkInputChanged", << new_text >>, << >>, 0, "none", TRUE)
          /\ IF app.screen = "LinkInput"
             THEN app' = [app EXCEPT !.youtube_link = new_text]
             ELSE UNCHANGED app
    /\ UNCHANGED track_data
    /\ download_unchanged

\* Message::DiscogsLinkInputChanged (gui/app.rs:47-55)
DiscogsLinkInputChanged ==
    /\ ready
    /\ \E new_text \in LinkTexts :
          /\ call' = Message("DiscogsLinkInputChanged", << new_text >>, << >>, 0, "none", TRUE)
          /\ IF app.screen = "LinkInput"
             THEN app' = [app EXCEPT !.discogs_link = new_text]
             ELSE UNCHANGED app
    /\ UNCHANGED track_data
    /\ download_unchanged

\* Message::SubmitLinks (gui/app.rs:56-61), with StateModifyingData::new
\* (gui/view_modifying_data.rs:84-103); the screen is not looked at
SubmitLinks ==
    /\ ready
    /\ \E youtube \in LinkTexts, discogs \in LinkTexts, scraped_discogs \in DiscogsResults :
          IF scraped_discogs.ok
          THEN /\ call' = Message("SubmitLinks", << youtube, discogs >>, << >>, 0,
                                  "succeeded", TRUE)
               /\ app' = ModifyingData(youtube)
               /\ track_data' = scraped_discogs.tracks
          ELSE /\ call' = Message("SubmitLinks", << youtube, discogs >>, << >>, 0,
                                  "failed", TRUE)
               /\ UNCHANGED << app, track_data >>
    /\ download_unchanged

\* ModifyDataInputChange::Year(s) (gui/app.rs:69-73)
YearChanged(s) ==
    /\ call' = Message("Year", s, << >>, 0, "none", TRUE)
    /\ IF app.screen = "ModifyingData" /\ IsSome(parse(s))
       THEN app' = [app EXCEPT !.year = Unwrap(parse(s))]
       ELSE UNCHANGED app
    /\ UNCHANGED track_data

\* ModifyDataInputChange::Tracks { index, value } (gui/app.rs:74-76); the
\* review screen has one input per track of the list
\* (gui/view_modifying_data.rs:159), so that in ModifyingData the index is
\* one of the list
TracksChanged(index, value) ==
    /\ call' = Message("Tracks", << >>, << value >>, index, "none", TRUE)
    /\ IF app.screen = "ModifyingData"
       THEN /\ index < Len(track_data)
            /\ track_data' = [track_data EXCEPT ![index + 1] = value]
       ELSE UNCHANGED track_data
    /\ UNCHANGED app

\* Message::ModifyDataInputChanged (gui/app.rs:62-83), for a change of the
\* year or of the title of a track
ModifyDataInputChanged ==
    /\ ready
    /\ \/ \E s \in YearTexts : YearChanged(s)
       \/ \E index \in 0..(MaxRerunTracks - 1), value \in Titles : TracksChanged(index, value)
    /\ download_unchanged

\* Message::Download (gui/app.rs:84-92): in ModifyingData, download_album is
\* called with the state; otherwise the message is ignored
Download ==
    /\ ready
    /\ IF app.screen = "ModifyingData"
       THEN /\ run' = run + 1
            /\ pc' = "where_dirs"
            /\ result' = None
            /\ tmp_dir' = "absent"
            /\ scraped' = None
            /\ dump' = NotInvoked
            /\ ids' = << >>
            /\ resp' = None
            /\ image' = NoImage
            /\ jobs' = NoJobs
            /\ completed' = none_completed(completed)
            /\ call' = Message("Download", << >>, << >>, 0, "none", FALSE)
       ELSE /\ call' = Message("Download", << >>, << >>, 0, "none", TRUE)
            /\ UNCHANGED << run, pc, result, tmp_dir, scraped, dump, ids, resp, image, jobs,
                            completed >>
    /\ UNCHANGED << threads, app, track_data, overwrite, tmp_files, out_files >>

\* as download_returned, but staying on the screen when download_album
\* returned an error
download_returned_keeping_on_error ==
    /\ pc = "returned"
    /\ pc' = "idle"
    /\ call' = [call EXCEPT !.done = TRUE]
    /\ IF Unwrap(result).ok
       THEN /\ app' = StateLinkInput_default
            /\ track_data' = << >>
       ELSE UNCHANGED << app, track_data >>
    /\ UNCHANGED << threads, completed, run, result, overwrite, tmp_dir, tmp_files, out_files,
                    scraped, dump, ids, resp, image, jobs >>

\* download_album has returned, with Ok or with an error that is logged: the
\* App becomes LinkInput with the default state (gui/app.rs:86-89)
download_returned ==
    /\ pc = "returned"
    /\ pc' = "idle"
    /\ call' = [call EXCEPT !.done = TRUE]
    /\ app' = StateLinkInput_default
    /\ track_data' = << >>
    /\ UNCHANGED << threads, completed, run, result, overwrite, tmp_dir, tmp_files, out_files,
                    scraped, dump, ids, resp, image, jobs >>

\* ------------------------------------------------------------------ string functions

\* longest name given to sanitize_file_name on its own
MaxNameLen == 3

\* most characters of the iterator given to consume and to
\* consume_mutually_exclusive, most characters of a sequence to consume, and
\* most sequences of the list of alternatives
MaxChars == 3

MaxSeqLen == 2

MaxSeqs == 2

\* the characters of the names: the nine illegal ones, a letter and a space
NameChars == ILLEGAL_CHARS \cup {"a", " "}

\* the characters of the parsed strings: a letter of one byte in UTF-8 and a
\* letter of two bytes
TextChars == {"a", "é"}

\* char::len_utf8
len_utf8(ch) == IF ch = "é" THEN 2 ELSE 1

\* str::len: the length of a string in bytes
RECURSIVE len(_)
len(str) == IF str = << >> THEN 0 ELSE len_utf8(Head(str)) + len(Tail(str))

\* PeekNth::peek_nth(i): the i-th character ahead, which stays in the iterator
peek_nth(chars, i) == IF i < Len(chars) THEN Some(chars[i + 1]) ELSE None

\* n calls of chars.next() (parsing.rs:36-38); next() on an exhausted
\* iterator yields None and leaves it exhausted
RECURSIVE next_n(_, _)
next_n(chars, n) ==
    IF n = 0 \/ chars = << >> THEN chars ELSE next_n(Tail(chars), n - 1)

\* the first loop of consume (parsing.rs:26-32)
matches(chars, sequence) ==
    \A i \in 0..(Len(sequence) - 1) : peek_nth(chars, i) = Some(sequence[i + 1])

\* consume (parsing.rs:25-43): the iterator afterwards and the number returned
consume(chars, sequence) ==
    IF matches(chars, sequence)
    THEN [chars |-> next_n(chars, len(sequence)), found |-> len(sequence)]
    ELSE [chars |-> chars, found |-> 0]

\* consume_mutually_exclusive (parsing.rs:66-74)
RECURSIVE consume_mutually_exclusive(_, _)
consume_mutually_exclusive(chars, sequences) ==
    IF sequences = << >> THEN [chars |-> chars, found |-> 0]
    ELSE LET r == consume(chars, Head(sequences))
         IN  IF r.found # 0 THEN r
             ELSE consume_mutually_exclusive(r.chars, Tail(sequences))

\* a URL string, as the user gave it, is the sequence of its four parts as
\* written: the scheme with its "://" (empty if the string has none), the
\* host, the path and the query with its "?" (empty if it has none)
UrlString(scheme, host, path, query) == << scheme, host, path, query >>

UrlSchemes == {"https://", "HTTPS://", ""}

UrlHosts == {"music.youtube.com", "www.youtube.com", "example.com"}

UrlPaths == {"/playlist", ""}

UrlQueries == {"?list=PL1", ""}

UrlStrings ==
    {UrlString(s, h, p, q) : s \in UrlSchemes, h \in UrlHosts, p \in UrlPaths, q \in UrlQueries}

\* the parser of the url crate lowercases the scheme
to_ascii_lowercase(str) == IF str = "HTTPS://" THEN "https://" ELSE str

\* Url::parse (utils.rs:123): a string without a scheme is a relative URL and
\* is rejected; otherwise the scheme is lowercased and the empty path of an
\* https URL becomes "/"
Url_parse(url) ==
    IF url[1] = "" THEN None
    ELSE Some(<< to_ascii_lowercase(url[1]), url[2],
                 IF url[3] = "" THEN "/" ELSE url[3], url[4] >>)

\* Url::host_str
host_str(parsed_url) == parsed_url[2]

\* Url::set_host, which succeeds on an https URL
set_host(parsed_url, host) == [parsed_url EXCEPT ![2] = host]

\* Url::to_string: the serialization of the parsed URL
to_string(parsed_url) == parsed_url

\* music_to_www (utils.rs:121-134)
music_to_www(url) ==
    LET parsed_url == Url_parse(url)
    IN  IF IsSome(parsed_url)
        THEN IF host_str(Unwrap(parsed_url)) # "www.youtube.com"
             THEN to_string(set_host(Unwrap(parsed_url), "www.youtube.com"))
             ELSE url
        ELSE url

\* the URL get_ids gives to scrape_playlist and to scrape_youtube
\* (download.rs:137, 140, 160)
scraped_url(url) == music_to_www(url)

\* the literals of parse_id_from_url (playlist.rs:27-29), character by character
lit_https == << "h", "t", "t", "p", "s", ":", "/", "/" >>

lit_http == << "h", "t", "t", "p", ":", "/", "/" >>

lit_www == << "w", "w", "w", "." >>

lit_music == << "m", "u", "s", "i", "c", "." >>

lit_playlist ==
    << "y", "o", "u", "t", "u", "b", "e", ".", "c", "o", "m", "/",
       "p", "l", "a", "y", "l", "i", "s", "t", "?", "l", "i", "s", "t", "=" >>

\* the start of the URL of a single video
lit_watch ==
    << "y", "o", "u", "t", "u", "b", "e", ".", "c", "o", "m", "/",
       "w", "a", "t", "c", "h", "?", "v", "=" >>

\* the loop of parse_id_from_url (playlist.rs:31-37): the characters up to
\* the first '&'
RECURSIVE until_ampersand(_)
until_ampersand(chars) ==
    IF chars = << >> THEN << >>
    ELSE IF Head(chars) = "&" THEN << >>
         ELSE << Head(chars) >> \o until_ampersand(Tail(chars))

\* parse_id_from_url (playlist.rs:21-44): what the three consume calls
\* return is not looked at
parse_id_from_url(url) ==
    LET after_scheme == consume_mutually_exclusive(url, << lit_https, lit_http >>).chars
        after_sub == consume_mutually_exclusive(after_scheme, << lit_www, lit_music >>).chars
        after_path == consume(after_sub, lit_playlist).chars
        str == until_ampersand(after_path)
    IN  IF str = << >> THEN None ELSE Some(str)

\* most characters after the '=' of the URLs given to parse_id_from_url
MaxIdLen == 3

\* the URLs given to parse_id_from_url: with or without scheme and subdomain,
\* of a playlist, of a video or of neither, followed by letters and '&'
UrlHeads ==
    {s \o w \o p : s \in {<< >>, lit_https, lit_http}, w \in {<< >>, lit_www, lit_music},
                   p \in {lit_playlist, lit_watch, << >>}}

UrlTails == SeqsUpTo({"a", "b", "&"}, MaxIdLen)

\* most lines of the output of the fallback tool, when get_ids is examined
\* on its own
MaxLines == 3

\* the outputs of the fallback tool: records, lines that serde rejects and
\* empty lines
OutputLines == SeqsUpTo(DumpLines \cup {EmptyLine}, MaxLines)

\* the calls examined on their own
SanitizeCalls ==
    {Call("sanitize_file_name", n, << >>) : n \in SeqsUpTo(NameChars, MaxNameLen)}

Seqs == SeqsUpTo(TextChars, MaxSeqLen)

ConsumeCalls ==
    {Call("consume", c, << q >>) : c \in SeqsUpTo(TextChars, MaxChars), q \in Seqs}

ConsumeMutuallyExclusiveCalls ==
    {Call("consume_mutually_exclusive", c, qs) :
        c \in SeqsUpTo(TextChars, MaxChars), qs \in SeqsUpTo(Seqs, MaxSeqs)}

MusicToWwwCalls == {Call("music_to_www", u, << >>) : u \in UrlStrings}

ParseIdFromUrlCalls ==
    {Call("parse_id_from_url", h \o t, << >>) : h \in UrlHeads, t \in UrlTails}

GetIdsCalls == {Call("get_ids", << >>, lines) : lines \in OutputLines}

\* the paths convert_to_mp3 is examined on: the file of track 0 without an
\* extension, with one, and with one after another part
PathExts == {"mp3", "MP3", "Mp3", "mP3", "webm", "m4a", "mp4", "mp", ""}

Paths ==
    {<< "0" >>} \cup {<< "0", e >> : e \in PathExts}
        \cup {<< "0", d, e >> : d \in {"mp3", "webm"}, e \in {"mp3", "MP3", "webm"}}

ConvertToMp3Calls ==
    {[Call("convert_to_mp3", p, << >>) EXCEPT !.id = id] :
        p \in Paths, id \in VideoIds}

pipeline_unchanged ==
    UNCHANGED << threads, app, completed, run, pc, result, track_data, overwrite, tmp_dir, tmp_files,
                 out_files, scraped, dump, ids, resp, image, jobs >>

\* sanitize_file_name(name) is called and returns
sanitize_file_name_call ==
    /\ call.fn = "sanitize_file_name"
    /\ ~call.done
    /\ call' = [call EXCEPT !.out = sanitize_file_name(call.arg), !.done = TRUE]
    /\ pipeline_unchanged

\* parse_id_from_url(url) is called and returns; out is the Option<String>
parse_id_from_url_call ==
    /\ call.fn = "parse_id_from_url"
    /\ ~call.done
    /\ call' = [call EXCEPT !.out = parse_id_from_url(call.arg), !.done = TRUE]
    /\ pipeline_unchanged

\* get_ids(url) is called and returns, the structured tier having failed
\* and the fallback tool having printed the lines call.sequences
\* (download.rs:156-160); found is the place of the line whose error is
\* returned, 0 if the call returns Ok
get_ids_call ==
    /\ call.fn = "get_ids"
    /\ ~call.done
    /\ LET r == get_ids(ScrapeErr, DumpRan(TRUE, call.sequences))
       IN  call' = [call EXCEPT !.out = r.ids, !.found = r.line, !.done = TRUE]
    /\ pipeline_unchanged

\* convert_to_mp3(old_path, id) is called and returns, ffmpeg doing one of
\* the things it can do if it is run
convert_to_mp3_call ==
    /\ call.fn = "convert_to_mp3"
    /\ ~call.done
    /\ \E f \in FfmpegRuns :
          LET r == convert_to_mp3(call.arg, call.id, f)
          IN  call' = [call EXCEPT !.tool = IF r.invoked THEN f ELSE "none",
                                   !.out = r.path, !.err = r.err, !.done = TRUE]
    /\ pipeline_unchanged

\* get_ids normalizes the URL it is given (download.rs:137)
music_to_www_call ==
    /\ call.fn = "music_to_www"
    /\ ~call.done
    /\ call' = [call EXCEPT !.out = scraped_url(call.arg), !.done = TRUE]
    /\ pipeline_unchanged

\* consume(&mut chars, sequence) is called and returns
consume_call ==
    /\ call.fn = "consume"
    /\ ~call.done
    /\ LET r == consume(call.chars, call.sequences[1])
       IN  call' = [call EXCEPT !.chars = r.chars, !.found = r.found, !.done = TRUE]
    /\ pipeline_unchanged

\* consume_mutually_exclusive(&mut chars, sequences) is called and returns
consume_mutually_exclusive_call ==
    /\ call.fn = "consume_mutually_exclusive"
    /\ ~call.done
    /\ LET r == consume_mutually_exclusive(call.chars, call.sequences)
       IN  call' = [call EXCEPT !.chars = r.chars, !.found = r.found, !.done = TRUE]
    /\ pipeline_unchanged

\* ------------------------------------------------------------------ specifications

JobStep(i) ==
    \/ generate_path_name(i)
    \/ dl_from_yt(i)
    \/ convert_to_mp3_step(i)
    \/ write_tags(i)
    \/ mv_check(i)
    \/ mv_remove_existing(i)
    \/ mv_copy(i)
    \/ mv_remove_tmp(i)
    \/ mv_skip(i)

Next ==
    \/ where_dirs_step
    \/ get_ids_run
    \/ get_image_run
    \/ \E i \in 0..(MaxTracks - 1) : JobStep(i)
    \/ join

\* one call of download_album, on a playlist of up to MaxTracks entries and
\* into an empty output directory
Spec == Init /\ [][Next]_vars

NextRerun ==
    \/ where_dirs_step
    \/ get_ids_rerun
    \/ get_image_run
    \/ \E i \in 0..(MaxRerunTracks - 1) : JobStep(i)
    \/ join
    \/ call_again

\* up to MaxRuns calls in a row for the same album of up to MaxRerunTracks
\* tracks: the later calls find the files of the earlier
SpecRerun == InitTracks(MaxRerunTracks) /\ [][NextRerun]_vars

NextArt ==
    \/ where_dirs_step
    \/ get_ids_run
    \/ get_image_any
    \/ \E i \in 0..(MaxTracks - 1) : JobStep(i)
    \/ join

\* one call of download_album, on every answer of the album-art request
SpecArt == Init /\ [][NextArt]_vars

NextText ==
    \/ sanitize_file_name_call
    \/ consume_call
    \/ consume_mutually_exclusive_call
    \/ music_to_www_call
    \/ parse_id_from_url_call
    \/ get_ids_call
    \/ convert_to_mp3_call

\* the string functions of utils.rs and parsing.rs, each called once on every
\* argument within the bounds
InitText ==
    \/ InitWith(0, SanitizeCalls)
    \/ InitWith(0, ConsumeCalls)
    \/ InitWith(0, ConsumeMutuallyExclusiveCalls)
    \/ InitWith(0, MusicToWwwCalls)
    \/ InitWith(0, ParseIdFromUrlCalls)
    \/ InitWith(0, GetIdsCalls)
    \/ InitWith(0, ConvertToMp3Calls)

SpecText == InitText /\ [][NextText]_vars

\* the steps of job i on a pool of threads workers: the first needs a worker
PooledJobStep(i) ==
    \/ start(i)
    \/ dl_from_yt(i)
    \/ convert_to_mp3_step(i)
    \/ write_tags(i)
    \/ mv_check(i)
    \/ mv_remove_existing(i)
    \/ mv_copy(i)
    \/ mv_remove_tmp(i)
    \/ mv_skip(i)

NextPool ==
    \/ where_dirs_step
    \/ get_ids_run
    \/ get_image_run
    \/ \E i \in 0..(MaxTracks - 1) : PooledJobStep(i)
    \/ \E i \in 0..(MaxTracks - 1) : hang(i)
    \/ join

\* every call that is made returns, every job that can take a step on a
\* worker takes one, and download_album goes on when it can
FairPool ==
    /\ WF_vars(where_dirs_step)
    /\ WF_vars(get_ids_run)
    /\ WF_vars(get_image_run)
    /\ \A i \in 0..(MaxTracks - 1) : WF_vars(PooledJobStep(i))
    /\ WF_vars(join)

\* one call of download_album on a pool of 1 to MaxThreads worker threads,
\* where the external tool of one job may never return
SpecPool == InitPooled(MaxTracks, {NoCall}, 1..MaxThreads) /\ [][NextPool]_vars /\ FairPool

\* the file an earlier call for the same album left for a track of the given
\* title, then the only track of the list
EarlierFile(title) ==
    Audio(0, "v1", Some([album |-> album_name, artist |-> album_artist,
                         album_artist |-> album_artist, track |-> 1, total_tracks |-> 1,
                         title |-> title, year |-> date_published, picture |-> FALSE]))

\* the output directory as an earlier call can have left it: empty, or with
\* the file of one track at its destination
EarlierDirs ==
    {EmptyDir} \cup {write_file(EmptyDir, out_file_path(t), EarlierFile(t)) : t \in Titles}

\* the program as the caller of download_album finds it (gui/app.rs:84-89)
\* when an earlier call may have filled the output directory
InitScratch ==
    /\ run = 1
    /\ pc = "where_dirs"
    /\ result = None
    /\ track_data \in SeqsUpTo(Titles, MaxRerunTracks)
    /\ overwrite = None
    /\ tmp_dir = "absent"
    /\ tmp_files = EmptyDir
    /\ out_files \in EarlierDirs
    /\ scraped = None
    /\ dump = NotInvoked
    /\ ids = << >>
    /\ resp = None
    /\ image = NoImage
    /\ jobs = NoJobs
    /\ call = NoCall
    /\ threads = MaxThreads
    /\ app = ModifyingData("")
    /\ completed = None

NextScratch ==
    \/ where_dirs_step
    \/ get_ids_rerun
    \/ get_image_run
    \/ \E i \in 0..(MaxRerunTracks - 1) : JobStep(i)
    \/ \E i \in 0..(MaxRerunTracks - 1) : scratch_file_removed(i)
    \/ join

\* one call of download_album for an album of up to MaxRerunTracks tracks,
\* into an output directory an earlier call may have filled, with scratch
\* files that can be deleted from outside while the jobs run
SpecScratch == InitScratch /\ [][NextScratch]_vars

\* the program as the caller of download_album finds it (gui/app.rs:84-89),
\* the order in which the jobs return being followed
InitOrder ==
    /\ run = 1
    /\ pc = "where_dirs"
    /\ result = None
    /\ track_data \in SeqsUpTo(Titles, MaxTracks)
    /\ overwrite = None
    /\ tmp_dir = "absent"
    /\ tmp_files = EmptyDir
    /\ out_files = EmptyDir
    /\ scraped = None
    /\ dump = NotInvoked
    /\ ids = << >>
    /\ resp = None
    /\ image = NoImage
    /\ jobs = NoJobs
    /\ call = NoCall
    /\ threads = MaxThreads
    /\ app = ModifyingData("")
    /\ completed = Some(<< >>)

\* one call of download_album as in Spec, with the order of completion of
\* its jobs
SpecOrder == InitOrder /\ [][Next]_vars

\* the GUI as App::new leaves it (gui/app.rs:16-30): no download_album has
\* been called since the program started; an earlier session may have
\* filled the output directory
InitGui ==
    /\ run = 0
    /\ pc = "idle"
    /\ result = None
    /\ track_data = << >>
    /\ overwrite = None
    /\ tmp_dir = "absent"
    /\ tmp_files = EmptyDir
    /\ out_files \in EarlierDirs
    /\ scraped = None
    /\ dump = NotInvoked
    /\ ids = << >>
    /\ resp = None
    /\ image = NoImage
    /\ jobs = NoJobs
    /\ call = NoCall
    /\ threads = MaxThreads
    /\ app = StateLinkInput_default
    /\ completed = None

NextGui ==
    \/ YoutubeLinkInputChanged
    \/ DiscogsLinkInputChanged
    \/ SubmitLinks
    \/ ModifyDataInputChanged
    \/ Download
    \/ where_dirs_step
    \/ get_ids_rerun
    \/ get_image_run
    \/ \E i \in 0..(MaxRerunTracks - 1) : JobStep(i)
    \/ join
    \/ download_returned

\* a session of the GUI from its start to the end of its first call of
\* download_album: the messages before it, on both screens, and the call
SpecGui == InitGui /\ [][NextGui]_vars

NextGetIds ==
    \/ where_dirs_step
    \/ get_ids_any

\* the resolver on every answer of the two tiers of up to MaxItems items
SpecGetIds == Init /\ [][NextGetIds]_vars

\* ------------------------------------------------------------------ properties

\* the call got as far as handing the jobs to the pool and has returned
joined == pc = "returned" /\ resp # None

FailedJobs == {i \in Indices : failed(jobs[i])}

job_error(i) == Unwrap(jobs[i].res).err

\* how often e occurs in a sequence of errors
Occurrences(errors, e) == Cardinality({k \in 1..Len(errors) : errors[k] = e})

\* C1: once the jobs were dispatched, download_album returns Ok if and only
\* if no job returned an error; otherwise it returns one MultipleErrors whose
\* list holds the error of every failed job, each as often as jobs returned
\* it, and nothing else.
C1_AllFailuresCollected ==
    joined =>
        LET r == Unwrap(result)
        IN  /\ r.ok <=> FailedJobs = {}
            /\ ~r.ok =>
                  /\ r.err.kind = "MultipleErrors"
                  /\ Len(r.err.errors) = Cardinality(FailedJobs)
                  /\ \A i \in FailedJobs :
                        Occurrences(r.err.errors, job_error(i))
                            = Cardinality({j \in FailedJobs : job_error(j) = job_error(i)})

\* a run in which two jobs failed and both errors are in the result
C1_Witness ==
    /\ joined
    /\ Cardinality(FailedJobs) = 2
    /\ Len(Unwrap(result).err.errors) = 2

\* the tracks whose fetch step (dl_from_yt) returned an error
FetchFailed == {i \in Indices : jobs[i].pc = "dl_from_yt" /\ failed(jobs[i])}

\* C2: if the fetch of the tracks in F fails and every other track succeeds,
\* the run returns a failure listing exactly |F| errors, tagged with the
\* identifiers of the tracks in F, and the file of every other track is in
\* the output directory.
C2_FetchFailuresReported ==
    (joined /\ FetchFailed # {} /\ \A i \in Indices \ FetchFailed : jobs[i].res = Some(Ok)) =>
        LET r == Unwrap(result)
        IN  /\ ~r.ok
            /\ r.err.kind = "MultipleErrors"
            /\ Len(r.err.errors) = Cardinality(FetchFailed)
            /\ {r.err.errors[k].id : k \in 1..Len(r.err.errors)}
                   = {Some(id_of(i)) : i \in FetchFailed}
            /\ \A i \in Indices \ FetchFailed : exists(out_files, dest_path(i))

\* the tracks whose fetch failed because yt-dlp exited with a failure
FetchExitFailed == {i \in FetchFailed : job_error(i).kind = "YtdlpError"}

\* C2, for the fetches that fail by the exit status of yt-dlp only (not a
\* claim of its own: it shows what of C2 the code does keep)
FetchExitFailuresReported ==
    (joined /\ FetchExitFailed # {} /\ \A i \in Indices \ FetchExitFailed : jobs[i].res = Some(Ok)) =>
        LET r == Unwrap(result)
        IN  /\ ~r.ok
            /\ r.err.kind = "MultipleErrors"
            /\ Len(r.err.errors) = Cardinality(FetchExitFailed)
            /\ {r.err.errors[k].id : k \in 1..Len(r.err.errors)}
                   = {Some(id_of(i)) : i \in FetchExitFailed}
            /\ \A i \in Indices \ FetchExitFailed : exists(out_files, dest_path(i))

\* C3: every error a track job returns, whatever the step, carries the
\* identifier of the track of that job.
C3_EveryErrorNamesItsTrack ==
    \A i \in Indices : failed(jobs[i]) => job_error(i).id = Some(id_of(i))

\* get_ids returned an error in this call
get_ids_failed == scraped # None /\ ~get_ids(Unwrap(scraped), dump).ok

\* where_dirs, or the conversion of the scratch path, failed in this call
where_dirs_failed == pc = "returned" /\ scraped = None

\* C4: if the workspace cannot be created or the identifiers cannot be
\* resolved, download_album returns that error, no job exists, and nothing
\* was fetched into the scratch directory or written to the output directory.
C4_AbortBeforeAnyJob ==
    (where_dirs_failed \/ get_ids_failed) =>
        /\ pc = "returned"
        /\ result # None
        /\ ~Unwrap(result).ok
        /\ where_dirs_failed => Unwrap(result).err \in {IoError, TmpDirError}
        /\ get_ids_failed => Unwrap(result).err = get_ids(Unwrap(scraped), dump).err
        /\ jobs = NoJobs
        /\ resp = None
        /\ tmp_files = EmptyDir
        /\ out_files = EmptyDir

\* the resolver failed: both tiers were tried and the call returned the error
C4_Witness ==
    /\ get_ids_failed
    /\ dump = DumpNotStarted
    /\ result = Some(Err(ScrapeYoutubeError("IoError")))

\* the structured scrape succeeded and every item of it has an identifier
all_have_ids(s) == s.ok /\ \A k \in 1..Len(s.tracks) : s.tracks[k] # None

\* the structured tier was tried and abandoned in this call
abandoned == scraped # None /\ ~all_have_ids(Unwrap(scraped))

\* C5: if the structured scrape succeeds and every item has an identifier,
\* get_ids returns exactly those identifiers in the same order and the
\* fallback tool is not invoked.
C5_StructuredTierWins ==
    (scraped # None /\ all_have_ids(Unwrap(scraped))) =>
        LET tracks == Unwrap(scraped).tracks
        IN  /\ pc = "get_image"
            /\ result = None
            /\ Len(ids) = Len(tracks)
            /\ \A k \in 1..Len(tracks) : ids[k] = tracks[k][1]
            /\ dump = NotInvoked

\* two scraped identifiers, returned in the order of the playlist
C5_Witness ==
    /\ scraped = Some(ScrapeOk(<< Some("v2"), Some("v1") >>))
    /\ ids = << "v2", "v1" >>
    /\ dump = NotInvoked

\* C6: if the structured scrape fails or an item of it, at any position, has
\* no identifier, the fallback tool is invoked and what get_ids returns is
\* the fallback's result alone: its identifiers in its order, or its error.
C6_FallbackTierAlone ==
    abandoned =>
        \/ /\ pc = "returned"
           /\ ~Unwrap(result).ok
           /\ ids = << >>
        \/ /\ pc = "get_image"
           /\ dump.started
           /\ Len(ids) = Len(dump.lines)
           /\ \A k \in 1..Len(ids) : dump.lines[k] = Some(ids[k])

\* an item without identifier after one with: nothing of the scrape is kept
C6_Witness ==
    /\ scraped = Some(ScrapeOk(<< Some("v1"), None >>))
    /\ dump = DumpRan(TRUE, << Some("v2") >>)
    /\ ids = << "v2" >>

\* the fallback tool failed: not started, a failure exit status, or a line
\* that does not parse
dump_failed(d) == ~d.started \/ ~d.success \/ \E k \in 1..Len(d.lines) : d.lines[k] = None

\* C7: if the structured tier is abandoned and the fallback tool fails,
\* get_ids returns an error and download_album returns it.
C7_FallbackFailureIsAnError ==
    (abandoned /\ dump_failed(dump)) =>
        /\ pc = "returned"
        /\ ~Unwrap(result).ok

\* job i has looked at its destination and found a file there
found_existing(i) == jobs[i].found # None /\ jobs[i].found[1] # None

\* the file job i found at its destination
found_file(i) == jobs[i].found[1][1]

\* no other job of this call writes to the destination of job i
unique_dest(i) ==
    \A j \in Indices \ {i} : j < Len(track_data) => dest_path(j) # dest_path(i)

\* the file job i produces: fetched in this call for its identifier, tagged
produced_file(i) == Audio(run, id_of(i), Some(generate_tags(i)))

\* the value read replaces an existing destination: unset, or exactly "true"
replaces(v) == v = None \/ v = Some("true")

\* C8: with overwrite enabled, a job that finds a file at its destination
\* (that of an earlier run of the same track) returns Ok and leaves there the
\* file it produced in this run, not the earlier one; and every job that
\* copied its file, in the first run as in a later one, returns Ok.
C8_OverwriteIdempotent ==
    \A i \in Indices :
        /\ (jobs[i].res # None /\ jobs[i].pc = "remove_tmp") => jobs[i].res = Some(Ok)
        /\ (jobs[i].res # None /\ found_existing(i) /\ overwrite # None
                /\ replaces(Unwrap(overwrite)) /\ unique_dest(i)) =>
              /\ jobs[i].res = Some(Ok)
              /\ exists(out_files, dest_path(i))
              /\ out_files[dest_path(i)] = produced_file(i)
              /\ out_files[dest_path(i)] # found_file(i)

\* the second run of a track replaced the file of the first run
C8_Witness ==
    /\ run = 2
    /\ overwrite = Some(Some("true"))
    /\ \E i \in Indices :
          /\ jobs[i].res = Some(Ok)
          /\ found_existing(i)
          /\ found_file(i).run = 1
          /\ found_file(i).id = id_of(i)
          /\ out_files[dest_path(i)].run = 2

\* C9: with overwrite disabled, a job that finds a file at its destination
\* goes the skip branch, deletes its scratch file, returns Ok, and the file it
\* found is still at the destination, unchanged.
C9_SkipKeepsExisting ==
    \A i \in Indices :
        (jobs[i].res # None /\ found_existing(i) /\ overwrite # None
             /\ ~replaces(Unwrap(overwrite))) =>
           /\ jobs[i].pc = "skip"
           /\ jobs[i].res = Some(Ok)
           /\ ~exists(tmp_files, tmp_path(i))
           /\ unique_dest(i) =>
                 /\ exists(out_files, dest_path(i))
                 /\ out_files[dest_path(i)] = found_file(i)

\* the second run of a track kept the file of the first run
C9_Witness ==
    /\ run = 2
    /\ pc = "jobs"
    /\ overwrite = Some(Some("1"))
    /\ \E i \in Indices :
          /\ jobs[i].res = Some(Ok)
          /\ jobs[i].pc = "skip"
          /\ unique_dest(i)
          /\ found_file(i).run = 1
          /\ out_files[dest_path(i)].run = 1

dispatched == resp # None

\* the index whose identifier is id: the position of id among the resolved
\* identifiers, counted from 0
index_of(id) == CHOOSE i \in 0..(Len(ids) - 1) : ids[i + 1] = id

\* C11: once the jobs are dispatched there is exactly one job per resolved
\* identifier, the job of the identifier at position i having index i; the
\* scratch files named by index i hold what was fetched for that identifier,
\* and every tag written, in the scratch directory or the output directory,
\* carries track number i+1 and the title of entry i of the track list,
\* whatever the order in which the jobs run and complete.
C11_IndexFixedAtDispatch ==
    /\ dispatched => DOMAIN jobs = 0..(Len(ids) - 1)
    /\ ~dispatched => jobs = NoJobs
    /\ \A p \in DOMAIN tmp_files :
          /\ p[1] \in Indices
          /\ tmp_files[p].id = ids[p[1] + 1]
          /\ tmp_files[p].tag # None =>
                /\ Unwrap(tmp_files[p].tag).track = p[1] + 1
                /\ Unwrap(tmp_files[p].tag).title = track_data[p[1] + 1]
    /\ \A p \in DOMAIN out_files :
          LET f == out_files[p]
          IN  /\ f.tag # None
              /\ \E i \in Indices : f.id = ids[i + 1]
              /\ Unwrap(f.tag).track = index_of(f.id) + 1
              /\ Unwrap(f.tag).title = track_data[index_of(f.id) + 1]
              /\ p = out_file_path(track_data[index_of(f.id) + 1])

\* the job of the second identifier completed before the job of the first
\* one started, and its file is tagged as track 2
C11_Witness ==
    /\ pc = "jobs"
    /\ 1 \in Indices
    /\ jobs[0].pc = "generate_path_name"
    /\ jobs[0].res = None
    /\ jobs[1].res = Some(Ok)
    /\ exists(out_files, dest_path(1))
    /\ out_files[dest_path(1)].id = ids[2]
    /\ Unwrap(out_files[dest_path(1)].tag).track = 2

\* every job of the call returned Ok and the call has returned
all_succeeded == joined /\ \A i \in Indices : jobs[i].res = Some(Ok)

\* YTMDL_OVERWRITE allows replacing: no job had to read it, or it was read as
\* unset or "true"
overwrite_on == overwrite = None \/ replaces(Unwrap(overwrite))

\* the file at the destination of job i is the one of track i: named by the
\* sanitized "{artist} - {album} - {title}.mp3" and tagged i+1 of the number
\* of tracks, with the album's artist and title
file_of_track(i) ==
    LET p == sanitize_file_name(format_file_name(album_artist, album_name, track_data[i + 1]))
    IN  /\ exists(out_files, p)
        /\ out_files[p].tag # None
        /\ Unwrap(out_files[p].tag).track = i + 1
        /\ Unwrap(out_files[p].tag).total_tracks = Len(ids)
        /\ Unwrap(out_files[p].tag).title = track_data[i + 1]
        /\ Unwrap(out_files[p].tag).artist = album_artist
        /\ Unwrap(out_files[p].tag).album = album_name

\* the titles of the track list give pairwise different file names
distinct_names ==
    \A i, j \in 1..Len(track_data) :
        i # j => out_file_path(track_data[i]) # out_file_path(track_data[j])

\* C12: a run with N identifiers and N titles, overwrite enabled and every
\* step of every job succeeding, leaves exactly N files in the output
\* directory, the i-th named after title i and tagged track i+1 of N with the
\* album's artist and title.
C12_AllFilesProduced ==
    (all_succeeded /\ Len(ids) = Len(track_data) /\ overwrite_on) =>
        /\ Cardinality(DOMAIN out_files) = Len(ids)
        /\ \A i \in Indices : file_of_track(i)

\* C12 for track lists whose titles give different file names (not a claim
\* of its own: it shows what of C12 the code does keep)
AllFilesProducedForDistinctNames ==
    (all_succeeded /\ Len(ids) = Len(track_data) /\ overwrite_on /\ distinct_names) =>
        /\ Cardinality(DOMAIN out_files) = Len(ids)
        /\ \A i \in Indices : file_of_track(i)

\* two tracks of different titles, both files produced
AllFilesProducedReached ==
    /\ all_succeeded
    /\ Len(ids) = 2
    /\ Len(track_data) = 2
    /\ distinct_names
    /\ Cardinality(DOMAIN out_files) = 2

\* the album-art fetch failed: a network error, or a response whose status is
\* not a success
fetch_failed(r) == ~r.ok \/ ~r.success

\* a tagged file, of the scratch directory or of the output directory, has an
\* embedded picture frame
has_picture(f) == f.tag # None /\ Unwrap(f.tag).picture

\* no file of either directory has a picture frame
no_pictures ==
    /\ \A p \in DOMAIN tmp_files : ~has_picture(tmp_files[p])
    /\ \A p \in DOMAIN out_files : ~has_picture(out_files[p])

\* C13: if the album-art fetch fails, a job is still dispatched for every
\* identifier, the call returns Ok when every job returned Ok, and no file
\* gets a picture frame; whatever the fetch did, a picture frame is embedded
\* only when both the image bytes and a content type were obtained.
C13_NoArtIsNoError ==
    /\ (resp # None /\ fetch_failed(Unwrap(resp))) =>
          /\ DOMAIN jobs = 0..(Len(ids) - 1)
          /\ all_succeeded => result = Some(Ok)
          /\ no_pictures
    /\ (resp # None /\ ~(image.img /\ image.content_type)) => no_pictures

\* C13 for the fetches that fail with a network error (not a claim of its
\* own: it shows what of C13 the code does keep)
NoArtIsNoErrorOnNetworkError ==
    /\ (resp # None /\ ~Unwrap(resp).ok) =>
          /\ DOMAIN jobs = 0..(Len(ids) - 1)
          /\ all_succeeded => result = Some(Ok)
          /\ no_pictures
    /\ (resp # None /\ ~(image.img /\ image.content_type)) => no_pictures

\* the fetch failed with a network error and two files were produced
NoArtIsNoErrorReached ==
    /\ resp = Some(GetErr)
    /\ all_succeeded
    /\ Cardinality(DOMAIN out_files) = 2
    /\ no_pictures

\* C14: get_image returns no bytes and no content type on every failure of
\* the fetch, a network error as well as a response of non-success status.
C14_NoArtOnAnyFailure ==
    (resp # None /\ fetch_failed(Unwrap(resp))) => image = NoImage

\* C14 for the network error alone (not a claim of its own)
NoArtOnNetworkError ==
    (resp # None /\ ~Unwrap(resp).ok) => image = NoImage

\* C17: whenever download_album has returned, on success, on an aggregate
\* failure of the jobs, or on an early abort, the scratch directory of the
\* call is gone with every file in it; it is missing without having been
\* deleted only if creating it was what failed.
C17_ScratchDeletedOnReturn ==
    pc = "returned" =>
        /\ tmp_dir \in {"absent", "deleted"}
        /\ tmp_files = EmptyDir
        /\ tmp_dir = "absent" => (where_dirs_failed /\ result = Some(Err(IoError)))
        /\ (joined \/ get_ids_failed) => tmp_dir = "deleted"

\* the call returned an aggregate failure of a job that failed in the
\* transcoder, leaving its fetched file in the scratch directory, which is gone
C17_Witness ==
    /\ joined
    /\ ~Unwrap(result).ok
    /\ tmp_dir = "deleted"
    /\ tmp_files = EmptyDir
    /\ \E i \in Indices : jobs[i].pc = "convert_to_mp3" /\ failed(jobs[i])

\* C18: when get_ids returns no identifier, no job is dispatched, nothing is
\* written, the call can return at once, and what it returns is Ok.
C18_NoIdentifiersIsSuccess ==
    (dispatched /\ ids = << >>) =>
        /\ jobs = NoJobs
        /\ tmp_files = EmptyDir
        /\ out_files = EmptyDir
        /\ pc \in {"jobs", "returned"}
        /\ pc = "jobs" => ENABLED join
        /\ pc = "returned" => result = Some(Ok)

\* the structured scrape found an empty playlist and the call returned Ok
C18_Witness ==
    /\ scraped = Some(ScrapeOk(<< >>))
    /\ dispatched
    /\ ids = << >>
    /\ jobs = NoJobs
    /\ pc = "returned"
    /\ result = Some(Ok)

\* name with every illegal character deleted, the others kept in their order
RECURSIVE without_illegal(_)
without_illegal(name) ==
    IF name = << >> THEN << >>
    ELSE IF Head(name) \in {"<", ">", ":", "\"", "/", "\\", "|", "?", "*"}
         THEN without_illegal(Tail(name))
         ELSE << Head(name) >> \o without_illegal(Tail(name))

sanitized == call.fn = "sanitize_file_name" /\ call.done

\* C15: sanitize_file_name(s) is s with every occurrence of the nine illegal
\* characters deleted and every other character kept, in order; so the output
\* holds no illegal character, and an input free of them is returned as it is.
C15_SanitizeDeletesIllegal ==
    sanitized =>
        /\ call.out = without_illegal(call.arg)
        /\ \A k \in 1..Len(call.out) :
              call.out[k] \notin {"<", ">", ":", "\"", "/", "\\", "|", "?", "*"}
        /\ (\A k \in 1..Len(call.arg) :
               call.arg[k] \notin {"<", ">", ":", "\"", "/", "\\", "|", "?", "*"})
              => call.out = call.arg

\* an illegal character between two words is deleted, merging the words
C15_Witness ==
    /\ sanitized
    /\ call.arg = << "a", "?", "a" >>
    /\ call.out = << "a", "a" >>

\* the characters start with the sequence
starts_with(chars, sequence) ==
    /\ Len(sequence) <= Len(chars)
    /\ \A k \in 1..Len(sequence) : chars[k] = sequence[k]

\* the characters without their first n
drop(chars, n) == SubSeq(chars, n + 1, Len(chars))

\* every character of the sequence is one byte long in UTF-8
is_ascii(sequence) == \A k \in 1..Len(sequence) : len_utf8(sequence[k]) = 1

consumed == call.fn = "consume" /\ call.done

\* C19: if the characters start with the sequence, consume removes exactly
\* the characters of the sequence from the front and returns their number;
\* otherwise it returns 0 and leaves the characters as they were.
C19_ConsumeAllOrNothing ==
    consumed =>
        LET sequence == call.sequences[1]
        IN  IF starts_with(call.arg, sequence)
            THEN /\ call.chars = drop(call.arg, Len(sequence))
                 /\ call.found = Len(sequence)
            ELSE /\ call.chars = call.arg
                 /\ call.found = 0

\* C19 for the sequences of one-byte characters (not a claim of its own: it
\* shows what of C19 the code does keep)
ConsumeAllOrNothingAscii ==
    (consumed /\ is_ascii(call.sequences[1])) =>
        LET sequence == call.sequences[1]
        IN  IF starts_with(call.arg, sequence)
            THEN /\ call.chars = drop(call.arg, Len(sequence))
                 /\ call.found = Len(sequence)
            ELSE /\ call.chars = call.arg
                 /\ call.found = 0

\* a sequence of two one-byte characters consumed from in front of a third
ConsumeAllOrNothingReached ==
    /\ consumed
    /\ call.arg = << "a", "a", "é" >>
    /\ call.sequences = << << "a", "a" >> >>
    /\ call.chars = << "é" >>
    /\ call.found = 2

consumed_mutually_exclusive == call.fn = "consume_mutually_exclusive" /\ call.done

\* the positions of the alternatives the characters start with
prefixes(chars, sequences) ==
    {k \in 1..Len(sequences) : starts_with(chars, sequences[k])}

\* the first of them
first_prefix(chars, sequences) ==
    CHOOSE k \in prefixes(chars, sequences) :
        \A j \in prefixes(chars, sequences) : k <= j

\* C20: consume_mutually_exclusive consumes exactly the first sequence of the
\* list that the characters start with, and returns its length; if they start
\* with none, it returns 0 and consumes nothing.
C20_FirstAlternativeWins ==
    consumed_mutually_exclusive =>
        IF prefixes(call.arg, call.sequences) # {}
        THEN LET sequence == call.sequences[first_prefix(call.arg, call.sequences)]
             IN  /\ call.chars = drop(call.arg, Len(sequence))
                 /\ call.found = Len(sequence)
        ELSE /\ call.chars = call.arg
             /\ call.found = 0

\* the alternatives are of one-byte characters and none is empty
plain_alternatives(sequences) ==
    \A k \in 1..Len(sequences) : sequences[k] # << >> /\ is_ascii(sequences[k])

\* C20 for such alternatives (not a claim of its own)
FirstAlternativeWinsPlain ==
    (consumed_mutually_exclusive /\ plain_alternatives(call.sequences)) =>
        IF prefixes(call.arg, call.sequences) # {}
        THEN LET sequence == call.sequences[first_prefix(call.arg, call.sequences)]
             IN  /\ call.chars = drop(call.arg, Len(sequence))
                 /\ call.found = Len(sequence)
        ELSE /\ call.chars = call.arg
             /\ call.found = 0

\* the earlier, shorter alternative is consumed, not the later, longer one
FirstAlternativeWinsReached ==
    /\ consumed_mutually_exclusive
    /\ call.arg = << "a", "a", "é" >>
    /\ call.sequences = << << "a" >>, << "a", "a" >> >>
    /\ call.chars = << "a", "é" >>
    /\ call.found = 1

normalized == call.fn = "music_to_www" /\ call.done

\* a playlist URL whose host is the music subdomain
music_playlist_url(url) ==
    /\ url[2] = "music.youtube.com"
    /\ url[3] = "/playlist"
    /\ url[4] # ""

\* the same URL string with the www host
with_www_host(url) == [url EXCEPT ![2] = "www.youtube.com"]

\* C16: for a playlist URL of the music subdomain, the URL that get_ids
\* scrapes in both tiers has the www host and the path and query of the one
\* given, and is the same string as for the same URL given with the www host.
C16_MusicHostNormalized ==
    (normalized /\ music_playlist_url(call.arg)) =>
        /\ call.out[2] = "www.youtube.com"
        /\ call.out[3] = call.arg[3]
        /\ call.out[4] = call.arg[4]
        /\ call.out = scraped_url(with_www_host(call.arg))

\* C16 for the URL strings written the way the url crate serializes them,
\* with a lowercase scheme (not a claim of its own: it shows what of C16 the
\* code does keep)
MusicHostNormalizedCanonical ==
    (normalized /\ music_playlist_url(call.arg) /\ call.arg[1] = "https://") =>
        /\ call.out[2] = "www.youtube.com"
        /\ call.out[3] = call.arg[3]
        /\ call.out[4] = call.arg[4]
        /\ call.out = scraped_url(with_www_host(call.arg))

\* https://music.youtube.com/playlist?list=PL1 became
\* https://www.youtube.com/playlist?list=PL1
MusicHostNormalizedReached ==
    /\ normalized
    /\ call.arg = UrlString("https://", "music.youtube.com", "/playlist", "?list=PL1")
    /\ call.out = UrlString("https://", "www.youtube.com", "/playlist", "?list=PL1")

parsed_id == call.fn = "parse_id_from_url" /\ call.done

\* the heads of the playlist URLs: optional scheme, optional www. or music.,
\* then youtube.com/playlist?list=
PlaylistHeads ==
    {s \o w \o lit_playlist : s \in {<< >>, lit_https, lit_http},
                              w \in {<< >>, lit_www, lit_music}}

\* url is a playlist URL and tail is what follows its "list="
is_playlist_url(url, tail) == \E h \in PlaylistHeads : url = h \o tail

\* the characters of tail before its first '&' (all of it if it has none)
id_of_tail(tail) ==
    LET amps == {k \in 1..Len(tail) : tail[k] = "&"}
    IN  IF amps = {} THEN tail
        ELSE SubSeq(tail, 1, (CHOOSE k \in amps : \A j \in amps : k <= j) - 1)

\* C21: for a playlist URL, parse_id_from_url returns Some(ID), the ID being
\* the characters after "list=" up to the first '&', and None when there are
\* none; for a URL that is not a playlist URL it returns no value.
C21_ParsesPlaylistId ==
    parsed_id =>
        IF \E t \in UrlTails : is_playlist_url(call.arg, t)
        THEN \A t \in UrlTails :
                is_playlist_url(call.arg, t) =>
                    call.out = IF id_of_tail(t) = << >> THEN None ELSE Some(id_of_tail(t))
        ELSE call.out = None

\* C21 for the playlist URLs alone (not a claim of its own: it shows what of
\* C21 the code does keep)
ParsesPlaylistIdOfPlaylistUrl ==
    parsed_id =>
        \A t \in UrlTails :
            is_playlist_url(call.arg, t) =>
                call.out = IF id_of_tail(t) = << >> THEN None ELSE Some(id_of_tail(t))

\* https://music.youtube.com/playlist?list=ab&a gives Some("ab")
ParsesPlaylistIdReached ==
    /\ parsed_id
    /\ call.arg = lit_https \o lit_music \o lit_playlist \o << "a", "b", "&" >>
    /\ call.out = Some(<< "a", "b" >>)

fell_back == call.fn = "get_ids" /\ call.done

\* the lines of the output that are not empty, in the order emitted
records_of(lines) == SelectSeq(lines, not_empty)

\* the places, among those, of the lines that do not parse
rejected(lines) == {k \in 1..Len(records_of(lines)) : records_of(lines)[k] = None}

\* C22: on the fallback tier, get_ids returns one identifier per non-empty
\* line of the tool's output, in the order emitted, if every such line
\* parses; otherwise nothing of the output and the error of the first line
\* that does not parse.
C22_FallbackOrderedAllOrNothing ==
    fell_back =>
        LET records == records_of(call.sequences)
            bad == rejected(call.sequences)
        IN  IF bad = {}
            THEN /\ call.found = 0
                 /\ Len(call.out) = Len(records)
                 /\ \A k \in 1..Len(records) : records[k] = Some(call.out[k])
            ELSE /\ call.out = << >>
                 /\ call.found \in bad
                 /\ \A k \in bad : call.found <= k

\* two records with an empty line between them, returned in their order
C22_Witness ==
    /\ fell_back
    /\ call.sequences = << Some("v2"), EmptyLine, Some("v1") >>
    /\ call.out = << "v2", "v1" >>
    /\ call.found = 0

\* two lines that do not parse after a record: the error is the first one's
FallbackFirstErrorReached ==
    /\ fell_back
    /\ call.sequences = << Some("v1"), None, None >>
    /\ call.out = << >>
    /\ call.found = 2

\* the order of the steps of handle_track (download.rs:121-133) and, within
\* the relocate step, of move_to_out_dir (download.rs:330-347)
next_step(from, to) ==
    \/ from = "generate_path_name" /\ to = "dl_from_yt"
    \/ from = "dl_from_yt" /\ to = "convert_to_mp3"
    \/ from = "convert_to_mp3" /\ to = "generate_tags"
    \/ from = "generate_tags" /\ to \in {"move_to_out_dir", "panicked"}
    \/ from = "move_to_out_dir" /\ to \in {"remove_existing", "skip", "copy"}
    \/ from = "remove_existing" /\ to = "copy"
    \/ from = "copy" /\ to = "remove_tmp"

\* job i has fetched, transcoded and tagged its file and is relocating it
relocating(i) ==
    /\ jobs[i].res = None
    /\ jobs[i].pc \in {"remove_existing", "copy"}
    /\ jobs[i].ext = Some("mp3")
    /\ exists(tmp_files, tmp_path(i))
    /\ tmp_files[tmp_path(i)].tag # None

\* C23: a job takes the steps of handle_track in their order, one at a time;
\* once it has returned, with an error of whatever step or with Ok, it takes
\* no further step; and the output directory changes only by a job that is
\* relocating its fetched, transcoded and tagged file: by that file being
\* copied to its destination, or by the existing file there being removed.
C23_StepsInOrder ==
    [][/\ \A i \in DOMAIN jobs \cap DOMAIN jobs' :
             /\ jobs[i].res # None => jobs'[i] = jobs[i]
             /\ jobs'[i].pc # jobs[i].pc => next_step(jobs[i].pc, jobs'[i].pc)
       /\ out_files' # out_files =>
             \E i \in DOMAIN jobs :
                 /\ relocating(i)
                 /\ \/ /\ jobs[i].pc = "copy"
                       /\ out_files' = write_file(out_files, dest_path(i), tmp_files[tmp_path(i)])
                    \/ /\ jobs[i].pc = "remove_existing"
                       /\ out_files' = remove_file(out_files, dest_path(i))]_vars

\* in a second call a job failed in the transcoder, before the relocate
\* step, and the file of the first call is still at its destination
C23_Witness ==
    /\ run = 2
    /\ \E i \in Indices :
          /\ failed(jobs[i])
          /\ jobs[i].pc = "convert_to_mp3"
          /\ i < Len(track_data)
          /\ exists(out_files, dest_path(i))
          /\ out_files[dest_path(i)].run = 1

\* the last part of the file name, if a dot precedes it, is mp3 in one of its
\* four spellings
has_mp3_extension(path) ==
    Len(path) > 1 /\ path[Len(path)] \in {"mp3", "mP3", "Mp3", "MP3"}

\* the path with the part after the last dot, if any, removed
without_extension(path) == IF Len(path) > 1 THEN SubSeq(path, 1, Len(path) - 1) ELSE path

\* C24: convert_to_mp3 runs ffmpeg if and only if the extension of the path
\* is not mp3 in any spelling. If it is, the path is returned as it is. If it
\* is not (or there is none), a successful ffmpeg gives the path with the
\* extension replaced by mp3, and an ffmpeg that exits with a failure gives
\* FfmpegError with the identifier.
C24_TranscodeUnlessMp3 ==
    (call.fn = "convert_to_mp3" /\ call.done) =>
        /\ call.tool = "none" <=> has_mp3_extension(call.arg)
        /\ has_mp3_extension(call.arg) => call.err = None /\ call.out = call.arg
        /\ call.tool = "succeeded" =>
              call.err = None /\ call.out = without_extension(call.arg) \o << "mp3" >>
        /\ call.tool = "failed" => call.err = Some(FfmpegError(call.id))

\* "0.Mp3" was passed on unchanged without ffmpeg
C24_Witness ==
    /\ call.fn = "convert_to_mp3"
    /\ call.done
    /\ call.arg = << "0", "Mp3" >>
    /\ call.tool = "none"
    /\ call.out = call.arg

\* not a claim of its own: ffmpeg failed on a file without extension
TranscodeFailedReached ==
    /\ call.fn = "convert_to_mp3"
    /\ call.done
    /\ call.arg = << "0" >>
    /\ call.tool = "failed"
    /\ call.err = Some(FfmpegError(call.id))

\* C25: the jobs of a call have pairwise different destinations, and a file
\* that a job finds at its destination (to remove it, or to skip because of
\* it) was not written by a job of the same call.
C25_NoSharedDestination ==
    \A i \in Indices :
        i < Len(track_data) =>
            /\ unique_dest(i)
            /\ found_existing(i) => found_file(i).run # run

\* C25 for the jobs whose destination no other job of the call has (not a
\* claim of its own: it shows what of C25 the code does keep)
NoSiblingFileAtUniqueDestination ==
    \A i \in Indices :
        (i < Len(track_data) /\ unique_dest(i)) =>
            (found_existing(i) => found_file(i).run # run)

\* a job with a destination of its own found the file of the call before
NoSiblingFileReached ==
    \E i \in Indices :
        /\ i < Len(track_data)
        /\ unique_dest(i)
        /\ found_existing(i)
        /\ found_file(i).run < run

\* not a claim of its own: a job found at its destination the file a sibling
\* job of the same call had just copied there
SiblingFileFoundReached ==
    \E i \in Indices :
        /\ i < Len(track_data)
        /\ found_existing(i)
        /\ found_file(i).run = run
        /\ found_file(i).id # id_of(i)

\* download_album is over: its locals (the TempDir, the output path, the
\* cover bytes and the content type the jobs were given pointers to) are
\* dropped, and the borrow of the state has ended
released == pc \in {"returned", "panicked"}

\* C26: once the jobs are dispatched, download_album is over, its locals
\* released and the scratch directory deleted, only when every job has
\* finished (with Ok, with an error, or by a panic); a finished job takes no
\* step, so no job runs on released data or on a deleted scratch directory.
C26_JoinAll ==
    (dispatched /\ (released \/ tmp_dir = "deleted")) =>
        /\ \A i \in Indices : finished(jobs[i])
        /\ \A i \in Indices : ~ENABLED JobStep(i)

\* the call is over with two jobs, one of which failed at the fetch while the
\* other went through
C26_Witness ==
    /\ dispatched
    /\ released
    /\ tmp_dir = "deleted"
    /\ \E i, j \in Indices :
          /\ jobs[i].pc = "dl_from_yt" /\ failed(jobs[i])
          /\ jobs[j].res = Some(Ok)

\* C27: if no external tool hangs, download_album returns; a job whose tool
\* hangs stays hung and download_album does not return, while every other
\* job comes to its end.
C27_NoTimeout ==
    /\ <>(pc = "returned" \/ \E i \in Indices : hung(i))
    /\ [][\A i \in Indices : hung(i) => pc' = "jobs" /\ i \in DOMAIN jobs' /\ jobs'[i].pc = "hung"]_vars
    /\ \A i \in 0..(MaxTracks - 1) :
          (i \in Indices /\ hung(i)) ~> (\A j \in Indices \ {i} : finished(jobs[j]))

\* not a claim of its own: if no external tool hangs, download_album comes
\* to an end, by returning or by the panic of a job
EndsUnlessHung ==
    <>(pc \in {"returned", "panicked"} \/ \E i \in Indices : hung(i))

\* not a claim of its own: a job whose tool hangs stays hung, and
\* download_album does not return
HungForGood ==
    [][\A i \in Indices : hung(i) => pc' = "jobs" /\ i \in DOMAIN jobs' /\ jobs'[i].pc = "hung"]_vars

\* not a claim of its own: on a pool of two or more workers the jobs other
\* than the hung one come to their end
OthersEndWithSpareWorker ==
    \A i \in 0..(MaxTracks - 1) :
        (i \in Indices /\ hung(i) /\ threads > 1) ~> (\A j \in Indices \ {i} : finished(jobs[j]))

\* not a claim of its own: the only worker is hung and another job has not
\* been started
StarvedReached ==
    /\ threads = 1
    /\ \E i, j \in Indices :
          /\ hung(i)
          /\ jobs[j].pc = "generate_path_name"
          /\ jobs[j].res = None
          /\ ~ENABLED NextPool

\* the host is youtube.com's music subdomain or its www subdomain
youtube_subdomain(host) == host \in {"music.youtube.com", "www.youtube.com"}

\* C28: music_to_www returns the string it was given when the host is
\* already www.youtube.com, when the string does not parse as a URL, and when
\* the host is not a subdomain of youtube.com.
C28_OnlyMusicHostRewritten ==
    (normalized /\ \/ call.arg[2] = "www.youtube.com"
                   \/ Url_parse(call.arg) = None
                   \/ ~youtube_subdomain(call.arg[2])) =>
        call.out = call.arg

\* C28 without its third case (not a claim of its own: it shows what of C28
\* the code does keep)
UnchangedWhenWwwOrUnparsed ==
    (normalized /\ (call.arg[2] = "www.youtube.com" \/ Url_parse(call.arg) = None)) =>
        call.out = call.arg

\* HTTPS://www.youtube.com came back as it was given, and so did the
\* scheme-less music.youtube.com/playlist?list=PL1
UnchangedWhenWwwOrUnparsedReached ==
    /\ normalized
    /\ call.out = call.arg
    /\ \/ call.arg = UrlString("HTTPS://", "www.youtube.com", "", "")
       \/ call.arg = UrlString("", "music.youtube.com", "/playlist", "?list=PL1")

\* not a claim of its own: https://example.com/playlist?list=PL1 became
\* https://www.youtube.com/playlist?list=PL1
ForeignHostRewrittenReached ==
    /\ normalized
    /\ call.arg = UrlString("https://", "example.com", "/playlist", "?list=PL1")
    /\ call.out = UrlString("https://", "www.youtube.com", "/playlist", "?list=PL1")

\* job i warned that its scratch file did not exist when move_to_out_dir
\* started, and has returned
returned_after_warning(i) == jobs[i].missing /\ jobs[i].res # None

\* C29: a job that finds its scratch file missing when the relocate step
\* starts goes on to the copy and returns the I/O error of the copy; it does
\* not return Ok.
C29_MissingScratchFailsAtCopy ==
    \A i \in Indices :
        returned_after_warning(i) =>
            /\ jobs[i].res = Some(Err(IoError))
            /\ jobs[i].pc = "copy"

\* C29 as the code has it: the job returns an I/O error and never Ok; the
\* error is the one of the copy, or, when the destination exists and is to be
\* kept, the one of the deletion of the scratch file, the copy not being
\* attempted (or the one of the removal of the existing file, if a job with
\* the same destination removed it first); until it returns the job is in
\* move_to_out_dir.
C29_MissingScratchIsIoError ==
    \A i \in Indices :
        jobs[i].missing =>
            /\ jobs[i].res \in {None, Some(Err(IoError))}
            /\ jobs[i].pc \in {"remove_existing", "copy", "skip"}
            /\ (jobs[i].res # None /\ jobs[i].pc = "remove_existing") => ~unique_dest(i)
            /\ jobs[i].pc = "skip" => found_existing(i) /\ ~overwrite_on

\* the scratch file was missing, the destination was free, and the job
\* returned the I/O error of the copy
C29_Witness ==
    \E i \in Indices :
        /\ returned_after_warning(i)
        /\ jobs[i].pc = "copy"
        /\ jobs[i].found = Some(None)
        /\ jobs[i].res = Some(Err(IoError))

\* not a claim of its own: the scratch file was missing, the destination was
\* kept, and the job returned the I/O error of the deletion without a copy
MissingScratchSkipReached ==
    \E i \in Indices :
        /\ returned_after_warning(i)
        /\ jobs[i].pc = "skip"
        /\ jobs[i].res = Some(Err(IoError))
        /\ out_files = write_file(EmptyDir, dest_path(i), EarlierFile(track_data[i + 1]))

\* C30: a Download message in ModifyingData starts one call of
\* download_album; while the call runs the App is not touched, no message is
\* handled and no other call is started; once the call has returned, with Ok
\* or with an error, the next thing to happen is that the App becomes
\* LinkInput with both links empty and the track list is gone.
C30_DownloadResetsApp ==
    [][/\ (idle /\ ~idle') =>
             /\ app.screen = "ModifyingData"
             /\ pc' = "where_dirs"
             /\ run' = run + 1
             /\ UNCHANGED << app, track_data >>
       /\ (~idle /\ pc # "returned") => UNCHANGED << app, track_data, run >> /\ ~idle'
       /\ pc = "returned" =>
             /\ idle'
             /\ run' = run
             /\ app' = LinkInput("", "")
             /\ track_data' = << >>]_vars

\* download_album was called once and returned an error of its jobs, and the
\* App is back in LinkInput with empty links
C30_Witness ==
    /\ idle
    /\ run = 1
    /\ result # None
    /\ ~Unwrap(result).ok
    /\ Unwrap(result).err.kind = "MultipleErrors"
    /\ app = LinkInput("", "")
    /\ track_data = << >>

\* not a claim of its own: the same after a call that returned Ok
DownloadOkResetsAppReached ==
    /\ idle
    /\ run = 1
    /\ result = Some(Ok)
    /\ Cardinality(DOMAIN out_files) = 1
    /\ app = LinkInput("", "")

\* job i returned an error from move_to_out_dir
relocate_failed(i) ==
    /\ failed(jobs[i])
    /\ jobs[i].pc \in {"remove_existing", "copy", "remove_tmp", "skip"}

\* the file job i found at its destination is still there, as it was
existing_kept(i) ==
    /\ exists(out_files, dest_path(i))
    /\ out_files[dest_path(i)] = found_file(i)

\* C31: a job that found a file at its destination (one no sibling writes
\* to) and returned an error from move_to_out_dir has left that file in
\* place, with the content it had.
C31_FailedRelocateKeepsExisting ==
    \A i \in Indices :
        (relocate_failed(i) /\ found_existing(i) /\ unique_dest(i)) => existing_kept(i)

\* not a claim of its own: the existing file is kept by a failed relocate
\* step when it is not to be overwritten
FailedRelocateKeepsExistingWhenKept ==
    \A i \in Indices :
        (relocate_failed(i) /\ found_existing(i) /\ unique_dest(i) /\ ~overwrite_on)
            => existing_kept(i)

\* not a claim of its own: the state FailedRelocateKeepsExistingWhenKept is
\* about, a job that was to keep the existing file and failed
FailedRelocateKeptReached ==
    \E i \in Indices :
        /\ relocate_failed(i)
        /\ found_existing(i)
        /\ ~overwrite_on
        /\ existing_kept(i)

\* not a claim of its own: overwriting was on, the existing file was removed,
\* the copy failed on the missing scratch file, and the destination is empty
ExistingLostReached ==
    \E i \in Indices :
        /\ relocate_failed(i)
        /\ jobs[i].pc = "copy"
        /\ found_existing(i)
        /\ overwrite_on
        /\ ~exists(out_files, dest_path(i))

\* the failed job that has k failed jobs of lower index before it
nth_failed(k) ==
    CHOOSE i \in FailedJobs : Cardinality({j \in FailedJobs : j < i}) = k

\* C32: when download_album returns MultipleErrors, its k-th entry is the
\* error of the failed job with the k-th lowest index, whatever the order in
\* which the jobs returned.
C32_ErrorsInIndexOrder ==
    (joined /\ ~Unwrap(result).ok) =>
        LET errors == Unwrap(result).err.errors
        IN  /\ Len(errors) = Cardinality(FailedJobs)
            /\ \A k \in 1..Len(errors) : errors[k] = job_error(nth_failed(k - 1))

\* job 1 returned its error before job 0 returned its own, a different one,
\* and the aggregate has the error of job 0 first
C32_Witness ==
    /\ joined
    /\ completed = Some(<< 1, 0 >>)
    /\ FailedJobs = {0, 1}
    /\ job_error(0) # job_error(1)
    /\ result = Some(Err(MultipleErrors(<< job_error(0), job_error(1) >>)))

\* a job aborted on state.track_data[i], or download_album did with it
panicked == pc = "panicked" \/ \E i \in Indices : jobs[i].pc = "panicked"

\* C33: the index of every dispatched job is an index of the track list, and
\* neither a job nor download_album ends by a panic: the call returns a
\* value.
C33_IndicesValid ==
    /\ dispatched => \A i \in Indices : i < Len(track_data)
    /\ ~panicked

\* not a claim of its own: with at least as many titles as identifiers every
\* index is valid and nothing panics
IndicesValidWhenTitlesSuffice ==
    (dispatched /\ Len(ids) <= Len(track_data)) =>
        /\ \A i \in Indices : i < Len(track_data)
        /\ ~panicked

\* not a claim of its own: the state IndicesValidWhenTitlesSuffice is about,
\* a call that returned after jobs that looked their titles up
TitlesSufficeReached ==
    /\ joined
    /\ Len(ids) = 2
    /\ Len(track_data) = 2
    /\ \A i \in Indices : jobs[i].res = Some(Ok)

\* not a claim of its own: one title for two identifiers, job 1 panicked in
\* the tag step and download_album ended by that panic, without a value
PanicReached ==
    /\ pc = "panicked"
    /\ result = None
    /\ Len(ids) = 2
    /\ Len(track_data) = 1
    /\ jobs[1].pc = "panicked"
    /\ jobs[0].res = Some(Ok)

\* the text is a number as written: an optional sign and then digits only,
\* at least one
is_number(text) ==
    LET digits == IF text # << >> /\ Head(text) \in {"+", "-"} THEN Tail(text) ELSE text
    IN  /\ digits # << >>
        /\ \A k \in 1..Len(digits) : is_digit(digits[k])

\* update changes nothing but its record of the message: neither the App
\* nor the track list, and no call of download_album starts
message_ignored ==
    /\ UNCHANGED << app, track_data, run, pc, result, overwrite, tmp_dir, tmp_files, out_files,
                    scraped, dump, ids, resp, image, jobs, threads, completed >>
    /\ idle'

\* C34: a link-input change received in ModifyingData, a
\* ModifyDataInputChanged or a Download received in LinkInput, and a
\* SubmitLinks whose scrape of the metadata fails change neither the App nor
\* the track list and start no download; a Year change whose text is no
\* number leaves the year (and all the rest) as it was; a download starts
\* from nothing but a Download received in ModifyingData.
C34_UnfitMessagesIgnored ==
    [][ready =>
          /\ (call'.id \in {"YoutubeLinkInputChanged", "DiscogsLinkInputChanged"}
                /\ app.screen = "ModifyingData") => message_ignored
          /\ (call'.id \in {"Year", "Tracks", "Download"} /\ app.screen = "LinkInput")
                => message_ignored
          /\ (call'.id = "SubmitLinks" /\ call'.tool = "failed") => message_ignored
          /\ (call'.id = "Year" /\ ~is_number(call'.arg)) =>
                 /\ app'.year = app.year
                 /\ message_ignored
          /\ ~idle' => call'.id = "Download" /\ app.screen = "ModifyingData"]_vars

\* the year was set to 7 on the review screen, and a Year change with the
\* text "x" has been handled since: the year is still 7
C34_Witness ==
    /\ ready
    /\ call = Message("Year", << "x" >>, << >>, 0, "none", TRUE)
    /\ app.screen = "ModifyingData"
    /\ app.year = 7

\* not a claim of its own: a change of the YouTube link was received on the
\* review screen, whose state has none of it
LinkChangeIgnoredReached ==
    /\ ready
    /\ call = Message("YoutubeLinkInputChanged", << "l" >>, << >>, 0, "none", TRUE)
    /\ app = ModifyingData("")

\* not a claim of its own: a Download was received on the link screen, and
\* download_album was not called
DownloadIgnoredReached ==
    /\ ready
    /\ call = Message("Download", << >>, << >>, 0, "none", TRUE)
    /\ app = LinkInput("l", "l")
    /\ result = None

\* not a claim of its own: a change of a title was received on the link
\* screen
TracksChangeIgnoredReached ==
    /\ ready
    /\ call.id = "Tracks"
    /\ app.screen = "LinkInput"
    /\ track_data = << >>

\* not a claim of its own: the scrape of the metadata failed for submitted
\* links, and the App is still on the link screen with its texts
SubmitFailedReached ==
    /\ ready
    /\ call = Message("SubmitLinks", << "l", "l" >>, << >>, 0, "failed", TRUE)
    /\ app = LinkInput("l", "l")

====
